---- MODULE Spec2Model ----
(***************************************************************************)
(* A model of the YouTube chat giveaway application: the participant store *)
(* of DataSourceManager (src/datasource.py), the ingestion paths that feed *)
(* it (src/youtube_api.py, src/parser.py, src/url_extractor.py), the       *)
(* Participant / Winner records (src/models.py) and the winner selection   *)
(* of WinnerSelector (src/selector.py).                                    *)
(*                                                                         *)
(* Strings that the code lowercases or strips are sequences of one-letter  *)
(* strings, so that lower() and strip() are computed and not assumed.      *)
(***************************************************************************)
EXTENDS Integers, Sequences, FiniteSets, TLC

\* ------------------------------------------------------------------ bounds

\* Largest message count a caller puts into message_counts.
MaxCount == 1
\* Longest eligible list handed to pick_winners.
MaxEligible == 3
\* Largest num_winners requested (the smallest is -1).
MaxNum == 4
\* Most messages held by the store / one mapping at a time.
MaxStoreMsgs == 3
\* Longest batch of chat messages one fetch delivers.
MaxBatch == 2
\* Most rows of an imported CSV file.
MaxRows == 2

\* ----------------------------------------------------------------- strings

\* str.lower() on one character of the model's alphabet.
LowerChar(c) ==
  CASE c = "A" -> "a"
    [] c = "B" -> "b"
    [] c = "C" -> "c"
    [] c = "D" -> "d"
    [] c = "E" -> "e"
    [] c = "F" -> "f"
    [] c = "G" -> "g"
    [] c = "H" -> "h"
    [] c = "I" -> "i"
    [] c = "J" -> "j"
    [] c = "K" -> "k"
    [] c = "L" -> "l"
    [] c = "M" -> "m"
    [] c = "N" -> "n"
    [] c = "O" -> "o"
    [] c = "P" -> "p"
    [] c = "Q" -> "q"
    [] c = "R" -> "r"
    [] c = "S" -> "s"
    [] c = "T" -> "t"
    [] c = "U" -> "u"
    [] c = "V" -> "v"
    [] c = "W" -> "w"
    [] c = "X" -> "x"
    [] c = "Y" -> "y"
    [] c = "Z" -> "z"
    [] OTHER -> c

\* str.lower(): character by character, the length is kept.
Lower(s) == [i \in 1..Len(s) |-> LowerChar(s[i])]

IsSpace(c) == c = " "

RECURSIVE LStrip(_)
\* str.lstrip(): leading whitespace removed.
LStrip(s) ==
  IF s = <<>> THEN <<>>
  ELSE IF IsSpace(Head(s)) THEN LStrip(Tail(s)) ELSE s

RECURSIVE RStrip(_)
\* str.rstrip(): trailing whitespace removed.
RStrip(s) ==
  IF s = <<>> THEN <<>>
  ELSE IF IsSpace(s[Len(s)]) THEN RStrip(SubSeq(s, 1, Len(s) - 1)) ELSE s

\* str.strip()
Strip(s) == RStrip(LStrip(s))

\* Display names that arrive from chat or files.
Usernames ==
  { <<"B","o","b">>, <<"b","o","b">>, <<"B","O","B">>,
    <<" ","a","l">>, <<" ">> }

\* Message texts that arrive from chat or files.
MessageTexts == { <<"w","i","n">>, <<"H","i">> }

\* The dictionary keys the ingestion code can produce (username.lower()).
IdentityKeys == { Lower(u) : u \in Usernames }

\* ------------------------------------------------------------------ state

VARIABLES
  \* WinnerSelector.pick_winners: the call in progress and its outcome
  sel_pc,               \* "idle" | "weighted" | "returned" | "raised"
  eligible_usernames,   \* argument
  num_winners,          \* argument
  weighted_by_messages, \* argument
  message_counts,       \* argument: a dict, as a function on a set of keys
  selected,             \* _weighted_selection: selected
  remaining_usernames,  \* _weighted_selection: remaining_usernames
  remaining_weights,    \* _weighted_selection: remaining_weights
  winners,              \* the list returned
  \* DataSourceManager
  participants,           \* self.participants: dict key -> Participant
  total_messages_fetched, \* self.total_messages_fetched
  last_fetch_time,        \* self.last_fetch_time: "None" or "set"
  fetch_errors,           \* self.fetch_errors
  new_participants,       \* the batch of the last import (its local new_participants)
  last_op,                \* the operation that ran last
  returned,               \* what it returned
  reported,               \* what it handed to the error callback (<<>>: nothing)
  arrivals,               \* per key: what arrived since the last clear (first name, names, number)
  \* a mapping of Participant objects built by hand, as the tests build them
  test_participants,
  \* live fetching
  is_live_fetching,       \* self.is_live_fetching
  stop_event,             \* self.stop_event is set
  live_chat_id,           \* youtube_api.live_chat_id: "None" or "set"
  threads,                \* the _live_fetch_loop threads: position and locals
  observed,               \* what the last filter run read of each participant
  \* GiveawayApp
  app_participants,       \* self.participants: the mapping get_participants returned
  app_eligible_usernames, \* self.eligible_usernames: the keys the filter kept
  \* ParticipantFilter
  keyword,                \* self.keyword
  min_messages,           \* self.min_messages
  blacklist,              \* self.blacklist
  case_sensitive,         \* self.case_sensitive
  filter_call,            \* the last call on the filter: what, on what, its result
  \* module random and the WinnerSelector objects
  rng,                    \* the generator of module random: its seed (<<>>: seeded by the system) and the requests served since
  outcomes,               \* what the generator has returned, per seed, requests served before, and request
  selectors,              \* the WinnerSelector objects: whether constructed, and self.seed (<<>>: None)
  own,                    \* per selector: the inputs of its calls on a seeded generator since it was constructed or seeded
  disturbed,              \* per selector: another component used the generator since it was seeded
  caller,                 \* the selector whose pick_winners runs or ran last
  seedings,               \* how many times a selector has been constructed or seeded
  picks                   \* the calls seeded selectors have completed: seed, calls before, inputs, result

selvars ==
  << sel_pc, eligible_usernames, num_winners, weighted_by_messages,
     message_counts, selected, remaining_usernames, remaining_weights,
     winners >>

storevars ==
  << participants, total_messages_fetched, last_fetch_time, fetch_errors,
     new_participants, last_op, returned, reported, arrivals >>

livevars == << is_live_fetching, stop_event, live_chat_id, threads, observed >>

filtervars == << keyword, min_messages, blacklist, case_sensitive, filter_call >>

appvars == << app_participants, app_eligible_usernames >>

rngvars == << rng, outcomes, selectors, own, disturbed, caller, seedings, picks >>

\* What the selector leaves alone.
nonselvars == << storevars, test_participants, livevars, filtervars, appvars >>

\* What the store operations leave alone.
nonstorevars == << selvars, rngvars, test_participants, livevars, filtervars, appvars >>

\* What the filter operations leave alone.
nonfiltervars == << selvars, rngvars, storevars, test_participants, livevars, appvars >>

vars == << selvars, rngvars, storevars, test_participants, livevars, filtervars, appvars >>

\* ------------------------------------------------------------- selector

\* Sequences over S without repeated elements, of length at most n.
DistinctSeqs(S, n) ==
  UNION { { s \in [1..k -> S] : \A i, j \in 1..k : i # j => s[i] # s[j] }
          : k \in 0..n }

\* dict.get(username, 1)
DictGet(d, k, default) == IF k \in DOMAIN d THEN d[k] ELSE default

\* A dict is truthy when it is not empty.
Truthy(d) == DOMAIN d # {}

RECURSIVE SumSeq(_)
SumSeq(s) == IF s = <<>> THEN 0 ELSE Head(s) + SumSeq(Tail(s))

\* list.pop(idx), idx counted from 1
Pop(s, idx) == SubSeq(s, 1, idx - 1) \o SubSeq(s, idx + 1, Len(s))

\* list.index(x), counted from 1
IndexOf(s, x) == CHOOSE i \in 1..Len(s) : s[i] = x /\ \A j \in 1..(i - 1) : s[j] # x

\* random.sample(population, k): every arrangement of k distinct positions.
Sample(population, k) ==
  { [j \in 1..k |-> population[f[j]]] :
      f \in { g \in [1..k -> 1..Len(population)] :
                \A i, j \in 1..k : i # j => g[i] # g[j] } }

\* random.choices(population, weights, k=1)[0]: the positions it can return.
\* bisect over the cumulative weights returns a position of positive weight.
\* With a total of zero CPython >= 3.9 raises ValueError (no position), and
\* CPython <= 3.8 returns the last position.
ChoicesPositions(weights) ==
  IF SumSeq(weights) > 0
  THEN { i \in 1..Len(weights) : weights[i] > 0 }
  ELSE { Len(weights) }

\* Whether random.choices can raise ValueError("Total of weights must be
\* greater than zero") (CPython >= 3.9).
ChoicesCanRaise(weights) == SumSeq(weights) <= 0

\* selector.py line 37: the size check.
SizeViolationGE(n, eligible) == n >= Len(eligible)
SizeViolationLoose(n, eligible) == n > Len(eligible) + 1
SizeViolation(n, eligible) == n > Len(eligible)

\* selector.py line 42
EmptyRequest(n) == n <= 0

\* selector.py line 45
UseWeighted(weighted, counts) == weighted /\ Truthy(counts)

\* selector.py line 78
InitialWeights(usernames, counts) ==
  [i \in 1..Len(usernames) |-> DictGet(counts, usernames[i], 1)]

\* selector.py lines 53-60: Winner objects, draw order from enumerate(.., 1).
\* (the timestamp, which nothing reads, is left out).
MakeWinnersFromZero(names) ==
  [i \in 1..Len(names) |-> [username |-> names[i], draw_order |-> i - 1]]
MakeWinners(names) ==
  [i \in 1..Len(names) |-> [username |-> names[i], draw_order |-> i]]

\* The arguments of one pick_winners call.
CallInputs ==
  { [eligible |-> e, n |-> n, weighted |-> w, counts |-> c] :
      e \in DistinctSeqs(IdentityKeys, MaxEligible),
      n \in (-1)..MaxNum,
      w \in BOOLEAN,
      c \in UNION { [D -> 0..MaxCount] : D \in SUBSET IdentityKeys } }

SetCall(in) ==
  /\ eligible_usernames' = in.eligible
  /\ num_winners' = in.n
  /\ weighted_by_messages' = in.weighted
  /\ message_counts' = in.counts

\* The WinnerSelector objects of the model: 1 is GiveawayApp.selector
\* (ui.py line 36), 2 is one more.
SelectorIds == {1, 2}

\* random.sample(population, k) and random.choices(population, weights) as
\* requests to the generator.
SampleRequest(population, k) == << "sample", population, << k >> >>
ChoicesRequest(population, weights) == << "choices", population, weights >>

\* The state of the generator when it serves a request: a seeded generator
\* is a function of its seed and of the requests it served since.
GenKey(request) == << rng.seed, rng.hist, request >>

\* What the generator can return for a request, of the outcomes possible for
\* it: seeded, what it returned in this state before, if it was in this
\* state before.
Generated(request, possible) ==
  IF rng.seed # <<>> /\ GenKey(request) \in DOMAIN outcomes
  THEN { outcomes[GenKey(request)] }
  ELSE possible

\* The generator has served the request with this outcome.
Consume(request, outcome) ==
  IF rng.seed = <<>>
  THEN UNCHANGED << rng, outcomes >>
  ELSE /\ rng' = [rng EXCEPT !.hist = Append(@, request)]
       /\ outcomes' = (GenKey(request) :> outcome) @@ outcomes

\* The outcomes of random.choices on these weights: a position, or 0 for
\* raising ValueError.
ChoicesOutcomes(weights) ==
  ChoicesPositions(weights) \cup (IF ChoicesCanRaise(weights) THEN {0} ELSE {})

\* The arguments and the result of the call that has ended.
CurrentInputs ==
  [eligible |-> eligible_usernames, n |-> num_winners,
   weighted |-> weighted_by_messages, counts |-> message_counts]

CurrentResult ==
  [raised |-> sel_pc = "raised",
   usernames |-> [i \in 1..Len(winners) |-> winners[i].username]]

\* Bookkeeping at the end of a step of a call of this selector: the selectors
\* that share the generator it used, and the call when it has ended.
Logged(sel) ==
  /\ disturbed' = IF rng' # rng
                  THEN [t \in SelectorIds |-> t # sel \/ disturbed[t]]
                  ELSE disturbed
  /\ own' = IF sel_pc' \in {"returned", "raised"} /\ rng.seed # <<>>
            THEN [own EXCEPT ![sel] = Append(@, CurrentInputs')]
            ELSE own
  /\ picks' = IF sel_pc' \in {"returned", "raised"} /\ selectors[sel].seed # <<>>
              THEN picks \cup
                     { [seeding |-> seedings,
                        seed |-> selectors[sel].seed, prior |-> own[sel],
                        in |-> CurrentInputs', result |-> CurrentResult',
                        others |-> disturbed[sel]] }
              ELSE picks

\* pick_winners, lines 37-40: raise ValueError.
PickRaiseSize(in) ==
  /\ SizeViolation(in.n, in.eligible)
  /\ SetCall(in)
  /\ sel_pc' = "raised"
  /\ UNCHANGED << rng, outcomes >>
  /\ winners' = <<>>
  /\ selected' = <<>>
  /\ remaining_usernames' = <<>>
  /\ remaining_weights' = <<>>

\* pick_winners, lines 42-43: return [].
PickReturnEmpty(in) ==
  /\ ~SizeViolation(in.n, in.eligible)
  /\ EmptyRequest(in.n)
  /\ SetCall(in)
  /\ sel_pc' = "returned"
  /\ UNCHANGED << rng, outcomes >>
  /\ winners' = <<>>
  /\ selected' = <<>>
  /\ remaining_usernames' = <<>>
  /\ remaining_weights' = <<>>

\* pick_winners, lines 49-62: random.sample, then the Winner list.
PickUniform(in) ==
  /\ ~SizeViolation(in.n, in.eligible)
  /\ ~EmptyRequest(in.n)
  /\ ~UseWeighted(in.weighted, in.counts)
  /\ SetCall(in)
  /\ \E s \in Generated(SampleRequest(in.eligible, in.n),
                        Sample(in.eligible, in.n)) :
       /\ selected' = s
       /\ winners' = MakeWinners(s)
       /\ Consume(SampleRequest(in.eligible, in.n), s)
  /\ sel_pc' = "returned"
  /\ remaining_usernames' = <<>>
  /\ remaining_weights' = <<>>

\* pick_winners, lines 45-48 and _weighted_selection lines 77-83.
PickWeightedStart(in) ==
  /\ ~SizeViolation(in.n, in.eligible)
  /\ ~EmptyRequest(in.n)
  /\ UseWeighted(in.weighted, in.counts)
  /\ SetCall(in)
  /\ selected' = <<>>
  /\ remaining_usernames' = in.eligible
  /\ remaining_weights' = InitialWeights(in.eligible, in.counts)
  /\ winners' = <<>>
  /\ sel_pc' = "weighted"
  /\ UNCHANGED << rng, outcomes >>

\* One call of pick_winners with these arguments on this selector, no call
\* being in progress.
Call(sel, in) ==
  /\ sel_pc = "idle"
  /\ selectors[sel].made
  /\ \/ PickRaiseSize(in)
     \/ PickReturnEmpty(in)
     \/ PickUniform(in)
     \/ PickWeightedStart(in)
  /\ caller' = sel
  /\ Logged(sel)
  /\ UNCHANGED << selectors, seedings, nonselvars >>

\* WinnerSelector.pick_winners, selector.py lines 19-62.
pick_winners ==
  /\ sel_pc = "idle"
  /\ \E sel \in SelectorIds, in \in CallInputs : Call(sel, in)

\* Whether the loop of _weighted_selection runs another iteration.
LoopContinues == Len(selected) < num_winners /\ remaining_usernames # <<>>

\* _weighted_selection, lines 85-100: one iteration that draws.
WeightedDraw ==
  /\ sel_pc = "weighted"
  /\ LoopContinues
  /\ \E pos \in Generated(ChoicesRequest(remaining_usernames, remaining_weights),
                          ChoicesOutcomes(remaining_weights)) \ {0} :
       LET chosen_username == remaining_usernames[pos]
           idx == IndexOf(remaining_usernames, chosen_username)
       IN /\ selected' = Append(selected, chosen_username)
          /\ remaining_usernames' = Pop(remaining_usernames, idx)
          /\ remaining_weights' = Pop(remaining_weights, idx)
          /\ Consume(ChoicesRequest(remaining_usernames, remaining_weights), pos)
  /\ UNCHANGED << sel_pc, eligible_usernames, num_winners, weighted_by_messages,
                  message_counts, winners, nonselvars >>
  /\ Logged(caller)
  /\ UNCHANGED << selectors, caller, seedings >>

\* _weighted_selection, lines 90-94: random.choices raises, and the
\* ValueError leaves pick_winners.
WeightedRaise ==
  /\ sel_pc = "weighted"
  /\ LoopContinues
  /\ ChoicesCanRaise(remaining_weights)
  /\ 0 \in Generated(ChoicesRequest(remaining_usernames, remaining_weights),
                     ChoicesOutcomes(remaining_weights))
  /\ sel_pc' = "raised"
  /\ UNCHANGED << eligible_usernames, num_winners, weighted_by_messages,
                  message_counts, selected, remaining_usernames,
                  remaining_weights, winners, nonselvars >>
  /\ UNCHANGED rng
  /\ outcomes' = IF rng.seed = <<>> THEN outcomes
                 ELSE (GenKey(ChoicesRequest(remaining_usernames,
                                             remaining_weights)) :> 0)
                      @@ outcomes
  /\ Logged(caller)
  /\ UNCHANGED << selectors, caller, seedings >>

\* _weighted_selection line 102 and pick_winners lines 53-62.
WeightedReturn ==
  /\ sel_pc = "weighted"
  /\ ~LoopContinues
  /\ winners' = MakeWinners(selected)
  /\ sel_pc' = "returned"
  /\ UNCHANGED << eligible_usernames, num_winners, weighted_by_messages,
                  message_counts, selected, remaining_usernames,
                  remaining_weights, nonselvars >>
  /\ UNCHANGED << rng, outcomes >>
  /\ Logged(caller)
  /\ UNCHANGED << selectors, caller, seedings >>

\* The caller has taken the result (or caught the exception): the locals of
\* the call are gone, the selector keeps nothing between calls.
CallEnds ==
  /\ sel_pc \in {"returned", "raised"}
  /\ sel_pc' = "idle"
  /\ eligible_usernames' = <<>>
  /\ num_winners' = 0
  /\ weighted_by_messages' = FALSE
  /\ message_counts' = <<>>
  /\ selected' = <<>>
  /\ remaining_usernames' = <<>>
  /\ remaining_weights' = <<>>
  /\ winners' = <<>>
  /\ UNCHANGED << rngvars, nonselvars >>

\* Seeds given to a selector.
Seeds == {42, 7}

\* random.seed(s): the generator starts over, for every component that
\* draws from it.
Reseeded(sel, s) ==
  /\ rng' = [seed |-> << s >>, hist |-> <<>>]
  /\ disturbed' = [t \in SelectorIds |-> t # sel]
  /\ seedings' = seedings + 1

\* WinnerSelector(seed), selector.py lines 13-17; seed is << s >> or <<>> for
\* None.
Construct(sel, seed) ==
  /\ sel_pc = "idle"
  /\ selectors' = [selectors EXCEPT ![sel] = [made |-> TRUE, seed |-> seed]]
  /\ own' = [own EXCEPT ![sel] = <<>>]
  /\ IF seed # <<>>
     THEN Reseeded(sel, seed[1])
     ELSE /\ UNCHANGED rng
          /\ disturbed' = [disturbed EXCEPT ![sel] = FALSE]
          /\ seedings' = seedings + 1
  /\ UNCHANGED << outcomes, caller, picks >>
  /\ UNCHANGED << selvars, nonselvars >>

\* WinnerSelector.set_seed, selector.py lines 108-111.
set_seed(sel, s) ==
  /\ sel_pc = "idle"
  /\ selectors[sel].made
  /\ selectors' = [selectors EXCEPT ![sel].seed = << s >>]
  /\ own' = [own EXCEPT ![sel] = <<>>]
  /\ Reseeded(sel, s)
  /\ UNCHANGED << outcomes, caller, picks >>
  /\ UNCHANGED << selvars, nonselvars >>

\* The module as imported and GiveawayApp.selector = WinnerSelector()
\* (ui.py line 36).
RngInit ==
  /\ rng = [seed |-> <<>>, hist |-> <<>>]
  /\ outcomes = <<>>
  /\ selectors = [sel \in SelectorIds |-> [made |-> sel = 1, seed |-> <<>>]]
  /\ own = [sel \in SelectorIds |-> <<>>]
  /\ disturbed = [sel \in SelectorIds |-> FALSE]
  /\ caller = 1
  /\ seedings = 0
  /\ picks = {}

SelInit ==
  /\ sel_pc = "idle"
  /\ eligible_usernames = <<>>
  /\ num_winners = 0
  /\ weighted_by_messages = FALSE
  /\ message_counts = <<>>
  /\ selected = <<>>
  /\ remaining_usernames = <<>>
  /\ remaining_weights = <<>>
  /\ winners = <<>>

\* ------------------------------------------------------------ Participant

\* A Participant: username, message_count, messages (first_seen, a timestamp
\* that no operation of the model reads, is left out).
\* Participant(username=..., first_seen=...): message_count 0, messages [].
NewParticipant(username) ==
  [username |-> username, message_count |-> 0, messages |-> <<>>]

\* Participant(username, message_count=c, messages=ms): the dataclass stores
\* the fields as given (__post_init__ only replaces a missing messages by []).
ParticipantInit(username, c, ms) ==
  [username |-> username, message_count |-> c, messages |-> ms]

\* add_message without the line that counts.
add_message_nocount(p, message) ==
  [p EXCEPT !.messages = Append(@, message)]

\* Participant.add_message, run without interruption.
add_message(p, message) ==
  [p EXCEPT !.messages = Append(@, message), !.message_count = @ + 1]

\* d[k] = v on a dict
DictSet(d, k, v) == [x \in DOMAIN d \cup {k} |-> IF x = k THEN v ELSE d[x]]

EmptyDict == <<>>

\* The messages a mapping holds, and the sum of its message counts.
RECURSIVE TotalMessagesOver(_, _)
TotalMessagesOver(d, keys) ==
  IF keys = {} THEN 0
  ELSE LET k == CHOOSE x \in keys : TRUE
       IN Len(d[k].messages) + TotalMessagesOver(d, keys \ {k})
TotalMessages(d) == TotalMessagesOver(d, DOMAIN d)

RECURSIVE SumCountsOver(_, _)
SumCountsOver(d, keys) ==
  IF keys = {} THEN 0
  ELSE LET k == CHOOSE x \in keys : TRUE
       IN d[k].message_count + SumCountsOver(d, keys \ {k})
SumCounts(d) == SumCountsOver(d, DOMAIN d)

\* ------------------------------------------------------------- ingestion

\* One message, were the display name taken from the latest message.
ProcessOneOverwrite(parts, message_data) ==
  LET username == message_data.username
      username_key == Lower(username)
      fresh == IF username_key \in DOMAIN parts
               THEN [parts[username_key] EXCEPT !.username = username]
               ELSE NewParticipant(username)
  IN DictSet(parts, username_key, add_message(fresh, message_data.message))

\* youtube_api.py lines 212-228: one message of process_chat_messages.
ProcessOne(parts, message_data) ==
  LET username == message_data.username
      username_key == Lower(username)
      created == IF username_key \in DOMAIN parts
                 THEN parts
                 ELSE DictSet(parts, username_key, NewParticipant(username))
  IN DictSet(created, username_key,
             add_message(created[username_key], message_data.message))

RECURSIVE process_chat_messages(_, _)
\* YouTubeAPI.process_chat_messages: the participants after the batch
\* (the count it returns is the length of the batch).
process_chat_messages(messages, parts) ==
  IF messages = <<>> THEN parts
  ELSE process_chat_messages(Tail(messages), ProcessOne(parts, Head(messages)))

\* One chat message as fetch_live_chat_messages delivers it.
ChatMessages ==
  { [username |-> u, message |-> m] : u \in Usernames, m \in MessageTexts }

\* Sequences over S of length 1..n.
SeqsUpTo(S, n) == UNION { [1..k -> S] : k \in 1..n }

\* parser.py lines 86-105: one row of _parse_csv (author_col 0, text_col 1).
ParseCsvRow(parts, row) ==
  IF Len(row) < 2 THEN parts
  ELSE LET username == Strip(row[1])
           message == Strip(row[2])
       IN IF username = <<>> \/ message = <<>> THEN parts
          ELSE LET username_key == Lower(username)
                   created == IF username_key \in DOMAIN parts
                              THEN parts
                              ELSE DictSet(parts, username_key,
                                           NewParticipant(username))
               IN DictSet(created, username_key,
                          add_message(created[username_key], message))

RECURSIVE ParseCsvFrom(_, _)
ParseCsvFrom(rows, parts) ==
  IF rows = <<>> THEN parts
  ELSE ParseCsvFrom(Tail(rows), ParseCsvRow(parts, Head(rows)))

\* DataParser._parse_csv on the rows csv.reader yields after the header.
parse_csv(rows) == ParseCsvFrom(rows, EmptyDict)

\* The rows of a CSV file: author and text cells, or a row that is too short.
CsvRows ==
  { <<u, m>> : u \in Usernames, m \in MessageTexts }
    \cup { << <<"B","o","b">>, <<" ">> >>, << <<"B","o","b">> >> }

\* url_extractor.py lines 156-164 (the first names of demo_usernames).
demo_usernames ==
  << <<"C","h","a","t","F","a","n","2","0","2","4">>,
     <<"S","t","r","e","a","m","V","i","e","w","e","r">>,
     <<"G","i","v","e","a","w","a","y","H","u","n","t","e","r">>,
     <<"L","i","v","e","W","a","t","c","h","e","r">> >>

\* url_extractor.py lines 166-186: a text of demo_messages and one of
\* giveaway_messages.
DemoMessageTexts ==
  { <<"L","o","v","e"," ","i","t","!">>, <<"I","'","m"," ","i","n","!">> }

\* The number of demo participants generated (25 in import_from_url).
DemoCount == 2
\* The most messages one demo participant gets (random.randint(1, 5)).
MaxDemoMsgs == 1

RECURSIVE AddMessages(_, _)
\* add_message called for each message in turn (datasource.py lines 89-90,
\* url_extractor.py lines 205-211).
AddMessages(existing, messages) ==
  IF messages = <<>> THEN existing
  ELSE AddMessages(add_message(existing, Head(messages)), Tail(messages))

\* url_extractor.py lines 188-215: generate_demo_participants. msgs[i] is the
\* message list the seeded generator gives participant i.
generate_demo_participants(count, msgs) ==
  LET selected_usernames == SubSeq(demo_usernames, 1, count)
  IN [k \in { Lower(selected_usernames[i]) : i \in 1..count } |->
        LET i == CHOOSE j \in 1..count : Lower(selected_usernames[j]) = k
        IN AddMessages(NewParticipant(selected_usernames[i]), msgs[i])]

\* The message lists the demo generator can produce for `count` participants.
DemoMessageLists(count) ==
  [1..count -> SeqsUpTo(DemoMessageTexts, MaxDemoMsgs)]

\* ----------------------------------------------------------------- merge

\* One incoming participant, were the incoming object stored in place of the
\* existing one.
MergeOneReplace(store, username_key, participant) ==
  IF username_key \in DOMAIN store
  THEN DictSet(store, username_key,
               [participant EXCEPT
                  !.messages = store[username_key].messages \o @,
                  !.message_count = store[username_key].message_count + @])
  ELSE DictSet(store, username_key, participant)

\* datasource.py lines 85-93 / 150-158: one incoming participant.
MergeOne(store, username_key, participant) ==
  IF username_key \in DOMAIN store
  THEN DictSet(store, username_key,
               AddMessages(store[username_key], participant.messages))
  ELSE DictSet(store, username_key, participant)

RECURSIVE MergeOver(_, _, _)
MergeOver(store, incoming, keys) ==
  IF keys = {} THEN store
  ELSE LET k == CHOOSE x \in keys : TRUE
       IN MergeOver(MergeOne(store, k, incoming[k]), incoming, keys \ {k})

\* The merge loop of import_from_file and import_from_url.
Merge(store, incoming) == MergeOver(store, incoming, DOMAIN incoming)

\* The store, were an import without participants to assign what it parsed.
ImportedStoreAssign(store, incoming) ==
  IF incoming = EmptyDict THEN incoming ELSE Merge(store, incoming)

\* datasource.py lines 79-93: the store import_from_file leaves behind.
ImportedStore(store, incoming) ==
  IF incoming = EmptyDict THEN store ELSE Merge(store, incoming)

\* The display names of the rows _parse_csv ingests, in file order.
RECURSIVE AcceptedCsvNames(_)
AcceptedCsvNames(rows) ==
  IF rows = <<>> THEN <<>>
  ELSE LET row == Head(rows)
           rest == AcceptedCsvNames(Tail(rows))
       IN IF Len(row) >= 2 /\ Strip(row[1]) # <<>> /\ Strip(row[2]) # <<>>
          THEN <<Strip(row[1])>> \o rest
          ELSE rest

RECURSIVE DemoNamesFrom(_, _)
\* The display names of the messages the demo generator produces, in order.
DemoNamesFrom(i, msgs) ==
  IF i > Len(msgs) THEN <<>>
  ELSE [j \in 1..Len(msgs[i]) |-> demo_usernames[i]] \o DemoNamesFrom(i + 1, msgs)
DemoNames(msgs) == DemoNamesFrom(1, msgs)

\* The display names of a batch of chat messages, in order.
ChatNames(messages) == [i \in 1..Len(messages) |-> messages[i].username]

RECURSIVE Arrived(_, _)
\* The record of arrivals after messages under these display names arrived
\* in this order: per lowercased name, the name that came first, the names
\* seen in the order they first came, and the number of messages.
Arrived(arr, names) ==
  IF names = <<>> THEN arr
  ELSE LET name == Head(names)
           k == Lower(name)
           seen == \E i \in 1..Len(arr[k].names) : arr[k].names[i] = name
           entry == IF k \in DOMAIN arr
                    THEN [arr[k] EXCEPT
                            !.names = IF seen THEN @ ELSE Append(@, name),
                            !.n = @ + 1]
                    ELSE [first |-> name, names |-> <<name>>, n |-> 1]
       IN Arrived(DictSet(arr, k, entry), Tail(names))

\* ------------------------------------------------- DataSourceManager

\* _notify_error, were the callback not called.
_notify_nothing(error) == << >>

\* DataSourceManager._notify_error, datasource.py lines 340-346, with the
\* callback the application registers (on_error is set): what the callback
\* is called with.
_notify_error(error) == << error >>

\* Room left under the model's bound on stored messages.
Room == MaxStoreMsgs - TotalMessages(participants)

\* DataSourceManager.import_from_file on a CSV file with these rows.
import_from_file(rows) ==
  LET parsed == parse_csv(rows)
  IN /\ new_participants' = parsed
     /\ participants' = ImportedStore(participants, parsed)
     /\ returned' = (parsed # EmptyDict)
     /\ reported' = IF parsed # EmptyDict THEN << >>
                    ELSE _notify_error("No valid participants found in file")
     /\ arrivals' = Arrived(arrivals, AcceptedCsvNames(rows))
     /\ last_op' = "import_from_file"
     /\ UNCHANGED << total_messages_fetched, last_fetch_time, fetch_errors >>
     /\ UNCHANGED nonstorevars

\* url_extractor.py lines 201-209: the generator after
\* generate_demo_participants, which seeds it with 42 + i for the i-th
\* participant (i from 0) and draws that participant's messages.
DemoGenerator(count) ==
  [seed |-> << 42 + (count - 1) >>, hist |-> << << "demo", <<>>, <<>> >> >>]

\* DataSourceManager.import_from_url with a valid, reachable URL.
import_from_url(msgs) ==
  LET generated == generate_demo_participants(DemoCount, msgs)
  IN /\ new_participants' = generated
     /\ participants' = Merge(participants, generated)
     /\ returned' = TRUE
     /\ reported' = << >>
     /\ arrivals' = Arrived(arrivals, DemoNames(msgs))
     /\ last_op' = "import_from_url"
     /\ rng' = DemoGenerator(DemoCount)
     /\ disturbed' = [sel \in SelectorIds |-> TRUE]
     /\ UNCHANGED << total_messages_fetched, last_fetch_time, fetch_errors >>
     /\ UNCHANGED << outcomes, selectors, own, caller, seedings, picks >>
     /\ UNCHANGED << selvars, test_participants, livevars, filtervars, appvars >>

\* parser.py line 17
supported_extensions == { <<".","t","x","t">>, <<".","c","s","v">> }

\* Files handed to import_from_file: whether the path exists, its suffix,
\* whether its bytes can be read as CSV text, and the rows csv.reader yields.
FileRows ==
  { << >>,
    << << <<"B","o","b">>, <<" ">> >> >>,
    << << <<"B","o","b">>, <<"H","i">> >> >> }

ImportFiles ==
  { [exists |-> e, suffix |-> x, readable |-> r, rows |-> rows] :
      e \in BOOLEAN, r \in BOOLEAN, rows \in FileRows,
      x \in { <<".","c","s","v">>, <<".","C","S","V">>, <<".","p","d","f">> } }

\* DataParser.parse_file, parser.py lines 33-47: the exception it raises
\* ("None": it returns) and the mapping it returns.
parse_file(file) ==
  IF ~file.exists
  THEN [raised |-> "FileNotFoundError", value |-> EmptyDict]
  ELSE IF Lower(file.suffix) \notin supported_extensions
  THEN [raised |-> "ValueError", value |-> EmptyDict]
  ELSE IF ~file.readable
  THEN [raised |-> "ValueError", value |-> EmptyDict]
  ELSE [raised |-> "None", value |-> parse_csv(file.rows)]

\* An import that returns False before the merge (datasource.py lines
\* 103-106, 124-126, 132-134): the error goes to the callback, nothing else
\* is assigned.
ImportFails(op, error) ==
  /\ new_participants' = EmptyDict
  /\ returned' = FALSE
  /\ reported' = _notify_error(error)
  /\ last_op' = op
  /\ UNCHANGED << participants, total_messages_fetched, last_fetch_time,
                  fetch_errors, arrivals >>
  /\ UNCHANGED nonstorevars

\* DataSourceManager.import_from_file on a file, datasource.py lines 73-106:
\* an exception of parse_file is caught at line 103.
ImportFile(file) ==
  IF parse_file(file).raised = "None"
  THEN import_from_file(file.rows)
  ELSE ImportFails("import_from_file", "Error importing file")

\* URLs handed to import_from_url: the text (empty, not a YouTube URL, a
\* YouTube URL) and whether the page answers the request of validate_url
\* and the request of line 130.
ImportUrls ==
  { [text |-> t, answers |-> a, answers_again |-> b] :
      t \in {"empty", "invalid", "valid"}, a \in BOOLEAN, b \in BOOLEAN }

\* YouTubeURLExtractor.validate_url, url_extractor.py lines 227-239.
validate_url(url) == url.text = "valid" /\ url.answers

\* DataSourceManager.import_from_url on a URL, datasource.py lines 119-171.
ImportUrl(url, msgs) ==
  IF ~validate_url(url)
  THEN ImportFails("import_from_url", "Invalid URL")
  ELSE IF ~url.answers_again
  THEN ImportFails("import_from_url", "Cannot access video")
  ELSE import_from_url(msgs)

\* datasource.py lines 235-255: one iteration of _live_fetch_loop whose fetch
\* succeeds with these messages, run with nothing else in between.
LiveBatch(messages) ==
  /\ participants' = process_chat_messages(messages, participants)
  /\ total_messages_fetched' = total_messages_fetched + Len(messages)
  /\ last_fetch_time' = "set"
  /\ arrivals' = Arrived(arrivals, ChatNames(messages))
  /\ last_op' = "live"
  /\ returned' = TRUE
  /\ reported' = << >>
  /\ new_participants' = EmptyDict
  /\ UNCHANGED fetch_errors
  /\ UNCHANGED nonstorevars

\* DataSourceManager.get_participants, line 302: self.participants.copy(),
\* a new dict on the Participant objects of the store. A mapping handed out
\* is the dict of the store itself (same) or a dict of its own: the keys
\* whose object the store still holds (stored) and the objects the store
\* holds no more, or never held (kept).
get_participants_same ==
  [same |-> TRUE, stored |-> {}, kept |-> EmptyDict]

get_participants ==
  [same |-> FALSE, stored |-> DOMAIN participants, kept |-> EmptyDict]

\* The keys of a mapping handed out, and the Participant under one of them.
MappingKeys(mapping) ==
  IF mapping.same THEN DOMAIN participants
  ELSE mapping.stored \cup DOMAIN mapping.kept

MappingGet(mapping, k) ==
  IF ~mapping.same /\ k \in DOMAIN mapping.kept THEN mapping.kept[k]
  ELSE participants[k]

\* The store drops or replaces the objects under these keys (clear(), line
\* 293; an assignment to a key that is taken): a dict of its own keeps them.
Unstored(mapping, keys) ==
  IF mapping.same THEN mapping
  ELSE [same |-> FALSE,
        stored |-> mapping.stored \ keys,
        kept |-> [k \in DOMAIN mapping.kept \cup (mapping.stored \cap keys) |->
                    IF k \in DOMAIN mapping.kept THEN mapping.kept[k]
                    ELSE participants[k]]]

\* clear_participants, were it to leave the count of fetch errors.
ClearedButErrors ==
  [participants |-> EmptyDict, total_messages_fetched |-> 0,
   last_fetch_time |-> "None", fetch_errors |-> fetch_errors]

\* clear_participants, lines 293-296: what it leaves in the store.
Cleared ==
  [participants |-> EmptyDict, total_messages_fetched |-> 0,
   last_fetch_time |-> "None", fetch_errors |-> 0]

\* DataSourceManager.clear_participants, lines 291-298, on the store and on
\* the threads inside it.
ClearStore ==
  /\ participants' = Cleared.participants
  /\ total_messages_fetched' = Cleared.total_messages_fetched
  /\ last_fetch_time' = Cleared.last_fetch_time
  /\ fetch_errors' = Cleared.fetch_errors
  /\ arrivals' = EmptyDict
  /\ new_participants' = EmptyDict
  /\ returned' = TRUE
  /\ reported' = << >>
  /\ threads' = [t \in DOMAIN threads |-> [threads[t] EXCEPT !.attached = FALSE]]
  /\ UNCHANGED << selvars, rngvars, filtervars, test_participants, is_live_fetching, stop_event,
                  live_chat_id, observed >>

\* DataSourceManager.clear_participants, called on the store alone: a
\* mapping handed out earlier keeps the objects it holds.
clear_participants ==
  /\ ClearStore
  /\ last_op' = "clear"
  /\ app_participants' = Unstored(app_participants, DOMAIN participants)
  /\ UNCHANGED app_eligible_usernames

\* dict.clear() on a mapping handed out.
MappingClear(mapping) == [mapping EXCEPT !.stored = {}, !.kept = EmptyDict]

\* GiveawayApp._clear_all, ui.py lines 335-342 (the question answered yes):
\* the store is cleared, then the mapping and the list of the application.
_clear_all ==
  /\ ClearStore
  /\ last_op' = "_clear_all"
  /\ app_participants' = MappingClear(app_participants)
  /\ app_eligible_usernames' = {}

\* What a change to a mapping handed out leaves alone.
MappingFrame ==
  /\ returned' = TRUE
  /\ reported' = << >>
  /\ UNCHANGED << total_messages_fetched, last_fetch_time, fetch_errors,
                  new_participants, arrivals >>
  /\ UNCHANGED << selvars, rngvars, filtervars, test_participants, livevars,
                  app_eligible_usernames >>

\* The holder of a mapping get_participants returned deletes a key of it
\* (del mapping[k]; ui.py line 339 deletes them all). On the dict of the
\* store itself the key leaves the store.
MappingDel(k) ==
  /\ k \in MappingKeys(app_participants)
  /\ IF app_participants.same
     THEN /\ participants' = [x \in DOMAIN participants \ {k} |-> participants[x]]
          /\ UNCHANGED app_participants
     ELSE /\ app_participants' =
               [same |-> FALSE,
                stored |-> app_participants.stored \ {k},
                kept |-> [x \in DOMAIN app_participants.kept \ {k} |->
                            app_participants.kept[x]]]
          /\ UNCHANGED participants
  /\ last_op' = "del"
  /\ MappingFrame

\* The holder of a mapping sets a key of it (mapping[k] = participant).
MappingSet(k, participant) ==
  /\ IF app_participants.same
     THEN /\ participants' = DictSet(participants, k, participant)
          /\ UNCHANGED app_participants
     ELSE /\ app_participants' =
               [same |-> FALSE,
                stored |-> app_participants.stored \ {k},
                kept |-> DictSet(app_participants.kept, k, participant)]
          /\ UNCHANGED participants
  /\ last_op' = "set"
  /\ MappingFrame

StoreInit ==
  /\ participants = EmptyDict
  /\ total_messages_fetched = 0
  /\ last_fetch_time = "None"
  /\ fetch_errors = 0
  /\ new_participants = EmptyDict
  /\ last_op = "init"
  /\ returned = TRUE
  /\ reported = << >>
  /\ arrivals = EmptyDict

\* ---------------------------------------------------------------- filters

\* Largest minimum entered with set_minimum_messages (the smallest is -1).
MaxMinMessages == 2
\* Longest list handed to set_blacklist.
MaxBlacklist == 2

\* Keywords entered.
KeywordInputs == { <<>>, <<" ">>, <<"W","I","N">>, <<"H","i">> }

\* Blacklist lines entered.
BlacklistEntries == { <<"B","O","B">>, <<" ","a","l"," ">>, <<" ">> }

\* Lists handed to set_blacklist: a line entered twice is one member of the
\* set of line 46, so the lists are without repeats.
BlacklistInputs == DistinctSeqs(BlacklistEntries, MaxBlacklist)

\* `sub in s` on strings.
Contains(sub, s) ==
  \E i \in 0..(Len(s) - Len(sub)) : SubSeq(s, i + 1, i + Len(sub)) = sub

\* max(a, b)
Max(a, b) == IF a >= b THEN a ELSE b

\* The filter object as a record (self).
Filter ==
  [keyword |-> keyword, min_messages |-> min_messages,
   blacklist |-> blacklist, case_sensitive |-> case_sensitive]

\* filters.py line 46, were the entries kept as typed.
BlacklistAsTyped(blacklisted_usernames) ==
  { blacklisted_usernames[i] :
      i \in { j \in 1..Len(blacklisted_usernames) :
                Strip(blacklisted_usernames[j]) # <<>> } }

\* filters.py line 46: {username.lower().strip() for username in
\* blacklisted_usernames if username.strip()}
NormalizedBlacklist(blacklisted_usernames) ==
  { Strip(Lower(blacklisted_usernames[i])) :
      i \in { j \in 1..Len(blacklisted_usernames) :
                Strip(blacklisted_usernames[j]) # <<>> } }

\* filters.py line 77
IsBlacklisted(f, participant) == Lower(participant.username) \in f.blacklist

\* filters.py line 81, were a count equal to the minimum too low.
BelowOrAtMinimum(f, participant) == participant.message_count <= f.min_messages

\* filters.py line 81
BelowMinimum(f, participant) == participant.message_count < f.min_messages

\* filters.py line 87
SearchKeyword(f) == IF f.case_sensitive THEN f.keyword ELSE Lower(f.keyword)

\* filters.py lines 89-93, were every comparison exact.
HasKeywordExact(f, participant) ==
  \E i \in 1..Len(participant.messages) :
    Contains(f.keyword, participant.messages[i])

\* filters.py lines 86-93: has_keyword after the loop over the messages.
HasKeyword(f, participant) ==
  \E i \in 1..Len(participant.messages) :
    Contains(SearchKeyword(f),
             IF f.case_sensitive THEN participant.messages[i]
             ELSE Lower(participant.messages[i]))

\* _is_eligible, were one passed check enough.
_is_eligible_any(f, participant) ==
  \/ ~IsBlacklisted(f, participant)
  \/ ~BelowMinimum(f, participant)
  \/ f.keyword # <<>> /\ HasKeyword(f, participant)

\* ParticipantFilter._is_eligible, filters.py lines 66-98.
_is_eligible(f, participant) ==
  IF IsBlacklisted(f, participant) THEN FALSE
  ELSE IF BelowMinimum(f, participant) THEN FALSE
  ELSE IF f.keyword # <<>> /\ ~HasKeyword(f, participant) THEN FALSE
  ELSE TRUE

\* ParticipantFilter.apply_filters, filters.py lines 48-64: the keys of the
\* mapping whose participant is eligible (the list is in the order of the
\* dict, which the mapping of the model does not keep).
apply_filters(f, parts) ==
  { username \in DOMAIN parts : _is_eligible(f, parts[username]) }

\* ParticipantFilter.is_participant_eligible, filters.py lines 115-125.
is_participant_eligible(f, participant) == _is_eligible(f, participant)

\* get_ineligible_reasons, were it to stop at the first failing check.
get_ineligible_reasons_first(f, participant) ==
  IF Lower(participant.username) \in f.blacklist THEN << "blacklist" >>
  ELSE IF participant.message_count < f.min_messages THEN << "min_messages" >>
  ELSE IF f.keyword # <<>> /\ ~HasKeyword(f, participant) THEN << "keyword" >>
  ELSE << >>

\* ParticipantFilter.get_ineligible_reasons, filters.py lines 127-158. A
\* reason is named by its check.
get_ineligible_reasons(f, participant) ==
  (IF Lower(participant.username) \in f.blacklist
   THEN << "blacklist" >> ELSE << >>)
  \o (IF participant.message_count < f.min_messages
      THEN << "min_messages" >> ELSE << >>)
  \o (IF f.keyword # <<>>
      THEN LET search_keyword ==
                 IF f.case_sensitive THEN f.keyword ELSE Lower(f.keyword)
               has_keyword ==
                 \E i \in 1..Len(participant.messages) :
                   Contains(search_keyword,
                            IF f.case_sensitive THEN participant.messages[i]
                            ELSE Lower(participant.messages[i]))
           IN IF ~has_keyword THEN << "keyword" >> ELSE << >>
      ELSE << >>)

\* ParticipantFilter.set_keyword_filter, filters.py lines 18-27.
set_keyword_filter(kw, cs) ==
  /\ keyword' = Strip(kw)
  /\ case_sensitive' = cs
  /\ filter_call' = [op |-> "set_keyword_filter", on |-> << kw, cs >>,
                     result |-> "None"]
  /\ UNCHANGED << min_messages, blacklist >>
  /\ UNCHANGED nonfiltervars

\* ParticipantFilter.set_minimum_messages, filters.py lines 29-36.
set_minimum_messages(min_count) ==
  /\ min_messages' = Max(0, min_count)
  /\ filter_call' = [op |-> "set_minimum_messages", on |-> min_count,
                     result |-> "None"]
  /\ UNCHANGED << keyword, case_sensitive, blacklist >>
  /\ UNCHANGED nonfiltervars

\* ParticipantFilter.set_blacklist, filters.py lines 38-46.
set_blacklist(blacklisted_usernames) ==
  /\ blacklist' = NormalizedBlacklist(blacklisted_usernames)
  /\ filter_call' = [op |-> "set_blacklist", on |-> blacklisted_usernames,
                     result |-> "None"]
  /\ UNCHANGED << keyword, case_sensitive, min_messages >>
  /\ UNCHANGED nonfiltervars

\* The mappings a caller hands to the filter: a snapshot of the store, or a
\* mapping built by hand.
FilterArguments == { participants, test_participants }

\* The filter object and the mapping, were search_keyword and search_message
\* (filters.py lines 87 and 90) written back to them.
FilterCallLowers(f, parts) ==
  [self |-> [f EXCEPT !.keyword = SearchKeyword(f)],
   participants |->
     [k \in DOMAIN parts |->
        [parts[k] EXCEPT !.messages = [i \in DOMAIN @ |-> Lower(@[i])]]]]

\* The filter object and the mapping it was handed after apply_filters,
\* is_participant_eligible or get_ineligible_reasons: the methods assign
\* locals only (eligible, reasons, has_keyword, search_keyword,
\* search_message; filters.py lines 58-62, 76-98, 136-158) and lower()
\* returns a new string.
FilterCallLeaves(f, parts) == [self |-> f, participants |-> parts]

\* The caller's mappings and the filter after a call that was handed the
\* participants under keys of the store (which = "store") or of the
\* hand-built mapping.
AfterFilterCall(which, keys) ==
  LET parts == IF which = "store" THEN participants ELSE test_participants
      after == FilterCallLeaves(Filter, [k \in keys |-> parts[k]])
      left == [k \in DOMAIN parts |->
                 IF k \in keys THEN after.participants[k] ELSE parts[k]]
  IN /\ keyword' = after.self.keyword
     /\ case_sensitive' = after.self.case_sensitive
     /\ min_messages' = after.self.min_messages
     /\ blacklist' = after.self.blacklist
     /\ participants' = IF which = "store" THEN left ELSE participants
     /\ test_participants' = IF which = "store" THEN test_participants ELSE left
     /\ UNCHANGED << total_messages_fetched, last_fetch_time, fetch_errors,
                     new_participants, last_op, returned, reported,
                     arrivals >>
     /\ UNCHANGED << selvars, rngvars, livevars, appvars >>

\* filter.apply_filters(participants), called as test_components.py line 60.
CallApplyFilters ==
  \E which \in {"store", "test"} :
    LET parts == IF which = "store" THEN participants ELSE test_participants
    IN /\ filter_call' = [op |-> "apply_filters", on |-> parts,
                          result |-> apply_filters(Filter, parts)]
       /\ AfterFilterCall(which, DOMAIN parts)

\* filter.get_ineligible_reasons(participant)
CallGetIneligibleReasons ==
  \E which \in {"store", "test"} :
    LET parts == IF which = "store" THEN participants ELSE test_participants
    IN \E k \in DOMAIN parts :
         /\ filter_call' = [op |-> "get_ineligible_reasons",
                            on |-> (k :> parts[k]),
                            result |-> get_ineligible_reasons(Filter, parts[k])]
         /\ AfterFilterCall(which, {k})

\* filter.is_participant_eligible(participant)
CallIsParticipantEligible ==
  \E which \in {"store", "test"} :
    LET parts == IF which = "store" THEN participants ELSE test_participants
    IN \E k \in DOMAIN parts :
         /\ filter_call' = [op |-> "is_participant_eligible",
                            on |-> (k :> parts[k]),
                            result |-> is_participant_eligible(Filter, parts[k])]
         /\ AfterFilterCall(which, {k})

\* ParticipantFilter.__init__, filters.py lines 11-16.
FilterInit ==
  /\ keyword = <<>>
  /\ min_messages = 1
  /\ blacklist = {}
  /\ case_sensitive = FALSE
  /\ filter_call = [op |-> "init", on |-> "None", result |-> "None"]

\* ------------------------------------------------------------ live fetching

\* The _live_fetch_loop threads that can exist side by side.
ThreadIds == {1, 2}

\* datasource.py line 230
max_consecutive_errors == 5

\* Most fetch errors counted.
MaxFetchErrors == 5

\* Most messages in the store and in flight while threads interleave.
MaxConcMsgs == 2

\* A thread that is not running: no position, no locals.
IdleThread ==
  [pc |-> "none", batch |-> <<>>, new_messages |-> 0,
   consecutive_errors |-> 0, loaded |-> 0, attached |-> FALSE]

\* Messages and rows that arrive while the threads interleave.
ConcChatMessages ==
  { [username |-> <<"B","o","b">>, message |-> <<"w","i","n">>] }

ConcCsvRows == { << <<"b","o","b">>, <<"H","i">> >> }

\* Messages fetched by the threads and not yet in the store.
RECURSIVE PendingOver(_)
PendingOver(ts) ==
  IF ts = {} THEN 0
  ELSE LET t == CHOOSE x \in ts : TRUE
       IN Len(threads[t].batch)
          - (IF threads[t].pc \in {"load", "store"} THEN 1 ELSE 0)
          + PendingOver(ts \ {t})
Pending == PendingOver(ThreadIds)

ConcRoom == MaxConcMsgs - TotalMessages(participants) - Pending

\* The key of the message a thread is processing (youtube_api.py line 217).
CurrentKey(t) == Lower(Head(threads[t].batch).username)

SetThread(t, r) == threads' = [threads EXCEPT ![t] = r]

\* DataSourceManager.start_live_fetch, lines 204-211: the API is configured,
\* no fetch is flagged as running, the video has a live chat. The new thread
\* takes the first free identity of slots; with none free the start is not
\* explored (slots bounds how many loops are alive together).
start_live_fetch(slots) ==
  /\ ~is_live_fetching
  /\ \E t \in slots :
       /\ threads[t].pc = "none"
       /\ \A u \in slots : threads[u].pc = "none" => t <= u
       /\ SetThread(t, [IdleThread EXCEPT !.pc = "test"])
  /\ stop_event' = FALSE
  /\ is_live_fetching' = TRUE
  /\ live_chat_id' = "set"
  /\ last_op' = "start_live_fetch"
  /\ returned' = TRUE
  /\ reported' = << >>
  /\ UNCHANGED << participants, total_messages_fetched, last_fetch_time,
                  fetch_errors, new_participants, arrivals, observed >>
  /\ UNCHANGED << selvars, rngvars, filtervars, test_participants, appvars >>

\* start_live_fetch, lines 183-202: it returns False (no API, a fetch is
\* flagged as running, a bad video id, no live chat).
start_live_fetch_refused ==
  /\ last_op' = "start_live_fetch"
  /\ returned' = FALSE
  /\ reported' = _notify_error("start_live_fetch refused")
  /\ UNCHANGED << participants, total_messages_fetched, last_fetch_time,
                  fetch_errors, new_participants, arrivals >>
  /\ UNCHANGED nonstorevars

\* DataSourceManager.stop_live_fetch. The join of line 223 gives up after
\* five seconds, so the thread may still be running when it returns.
stop_live_fetch ==
  /\ IF is_live_fetching
     THEN stop_event' = TRUE /\ is_live_fetching' = FALSE
     ELSE UNCHANGED << stop_event, is_live_fetching >>
  /\ last_op' = "stop_live_fetch"
  /\ returned' = TRUE
  /\ reported' = << >>
  /\ UNCHANGED << participants, total_messages_fetched, last_fetch_time,
                  fetch_errors, new_participants, arrivals, live_chat_id,
                  threads, observed >>
  /\ UNCHANGED << selvars, rngvars, filtervars, test_participants, appvars >>

\* What a thread step leaves alone besides the store.
ThreadFrame ==
  /\ UNCHANGED << new_participants, last_op, returned, reported, observed >>
  /\ UNCHANGED << selvars, rngvars, filtervars, test_participants, appvars >>

\* The test of line 232, were it not to look at stop_event.
T_TestBlind(t) ==
  /\ threads[t].pc = "test"
  /\ SetThread(t, [threads[t] EXCEPT !.pc = "fetch"])
  /\ UNCHANGED << participants, total_messages_fetched, last_fetch_time,
                  fetch_errors, arrivals, is_live_fetching, stop_event, live_chat_id >>
  /\ ThreadFrame

\* _live_fetch_loop line 232: while not self.stop_event.is_set()
T_Test(t) ==
  /\ threads[t].pc = "test"
  /\ SetThread(t, [threads[t] EXCEPT !.pc = IF stop_event THEN "cleanup" ELSE "fetch"])
  /\ UNCHANGED << participants, total_messages_fetched, last_fetch_time,
                  fetch_errors, arrivals, is_live_fetching, stop_event, live_chat_id >>
  /\ ThreadFrame

\* line 235: the fetch succeeds with messages.
T_FetchMessages(t, messages) ==
  /\ threads[t].pc = "fetch"
  /\ live_chat_id = "set"
  /\ SetThread(t, [threads[t] EXCEPT !.pc = "check", !.batch = messages,
                                     !.new_messages = 0])
  /\ UNCHANGED << participants, total_messages_fetched, last_fetch_time,
                  fetch_errors, arrivals, is_live_fetching, stop_event, live_chat_id >>
  /\ ThreadFrame

\* lines 237-255, 268-270: the fetch succeeds with no message.
T_FetchNothing(t) ==
  /\ threads[t].pc = "fetch"
  /\ live_chat_id = "set"
  /\ SetThread(t, [threads[t] EXCEPT !.pc = "test", !.consecutive_errors = 0])
  /\ UNCHANGED << participants, total_messages_fetched, last_fetch_time,
                  fetch_errors, arrivals, is_live_fetching, stop_event, live_chat_id >>
  /\ ThreadFrame

\* lines 257-266 and 272-284: an error is counted; the loop ends at the
\* fifth in a row.
CountError(t) ==
  /\ fetch_errors < MaxFetchErrors
  /\ fetch_errors' = fetch_errors + 1
  /\ SetThread(t, [threads[t] EXCEPT
                     !.consecutive_errors = @ + 1,
                     !.batch = <<>>,
                     !.attached = FALSE,
                     !.pc = IF threads[t].consecutive_errors + 1 >= max_consecutive_errors
                            THEN "cleanup" ELSE "test"])

\* line 235: the fetch reports an error (always when the chat session has
\* been reset).
T_FetchError(t) ==
  /\ threads[t].pc = "fetch"
  /\ CountError(t)
  /\ UNCHANGED << participants, total_messages_fetched, last_fetch_time,
                  arrivals, is_live_fetching, stop_event, live_chat_id >>
  /\ ThreadFrame

\* youtube_api.py line 220: if username_key not in participants
T_Check(t) ==
  /\ threads[t].pc = "check"
  /\ SetThread(t, [threads[t] EXCEPT
                     !.pc = IF CurrentKey(t) \in DOMAIN participants
                            THEN "append" ELSE "create"])
  /\ UNCHANGED << participants, total_messages_fetched, last_fetch_time,
                  fetch_errors, arrivals, is_live_fetching, stop_event, live_chat_id >>
  /\ ThreadFrame

\* youtube_api.py lines 221-224: participants[username_key] = Participant(..).
\* A thread inside add_message on the object that was stored there keeps
\* that object, which is no longer in the store.
T_Create(t) ==
  /\ threads[t].pc = "create"
  /\ participants' = DictSet(participants, CurrentKey(t),
                             NewParticipant(Head(threads[t].batch).username))
  /\ threads' = [u \in ThreadIds |->
                   IF u = t THEN [threads[t] EXCEPT !.pc = "append"]
                   ELSE IF threads[u].attached /\ CurrentKey(u) = CurrentKey(t)
                        THEN [threads[u] EXCEPT !.attached = FALSE]
                        ELSE threads[u]]
  /\ app_participants' = Unstored(app_participants, {CurrentKey(t)})
  /\ UNCHANGED << total_messages_fetched, last_fetch_time, fetch_errors,
                  arrivals, is_live_fetching, stop_event, live_chat_id >>
  /\ UNCHANGED << new_participants, last_op, returned, reported, observed >>
  /\ UNCHANGED << selvars, rngvars, filtervars, test_participants,
                  app_eligible_usernames >>

\* youtube_api.py line 227 and models.py line 25: the participant is looked
\* up and self.messages.append(message) runs.
T_Append(t) ==
  /\ threads[t].pc = "append"
  /\ CurrentKey(t) \in DOMAIN participants
  /\ participants' = [participants EXCEPT
                        ![CurrentKey(t)].messages =
                           Append(@, Head(threads[t].batch).message)]
  /\ arrivals' = Arrived(arrivals, << Head(threads[t].batch).username >>)
  /\ SetThread(t, [threads[t] EXCEPT !.pc = "load", !.attached = TRUE])
  /\ UNCHANGED << total_messages_fetched, last_fetch_time, fetch_errors,
                  is_live_fetching, stop_event, live_chat_id >>
  /\ ThreadFrame

\* youtube_api.py line 227: the key is gone (the store was cleared after the
\* check), KeyError reaches the handler of _live_fetch_loop lines 272-284.
T_KeyError(t) ==
  /\ threads[t].pc = "append"
  /\ CurrentKey(t) \notin DOMAIN participants
  /\ CountError(t)
  /\ UNCHANGED << participants, total_messages_fetched, last_fetch_time,
                  arrivals, is_live_fetching, stop_event, live_chat_id >>
  /\ ThreadFrame

\* models.py line 26, self.message_count += 1: the read.
T_Load(t) ==
  /\ threads[t].pc = "load"
  /\ SetThread(t, [threads[t] EXCEPT
                     !.pc = "store",
                     !.loaded = IF threads[t].attached
                                THEN participants[CurrentKey(t)].message_count
                                ELSE @])
  /\ UNCHANGED << participants, total_messages_fetched, last_fetch_time,
                  fetch_errors, arrivals, is_live_fetching, stop_event, live_chat_id >>
  /\ ThreadFrame

\* models.py line 26, self.message_count += 1: the write; then
\* youtube_api.py line 228 and the next message of the batch.
T_Store(t) ==
  /\ threads[t].pc = "store"
  /\ participants' =
       IF threads[t].attached
       THEN [participants EXCEPT
               ![CurrentKey(t)].message_count = threads[t].loaded + 1]
       ELSE participants
  /\ SetThread(t, [threads[t] EXCEPT
                     !.batch = Tail(@),
                     !.new_messages = @ + 1,
                     !.attached = FALSE,
                     !.loaded = 0,
                     !.pc = IF Tail(threads[t].batch) = <<>>
                            THEN "account" ELSE "check"])
  /\ UNCHANGED << total_messages_fetched, last_fetch_time, fetch_errors,
                  arrivals, is_live_fetching, stop_event, live_chat_id >>
  /\ ThreadFrame

\* datasource.py lines 244-255 and 268-270: the counters, then the wait.
T_Account(t) ==
  /\ threads[t].pc = "account"
  /\ total_messages_fetched' = total_messages_fetched + threads[t].new_messages
  /\ last_fetch_time' = "set"
  /\ SetThread(t, [threads[t] EXCEPT !.pc = "test", !.new_messages = 0,
                                     !.consecutive_errors = 0])
  /\ UNCHANGED << participants, fetch_errors, arrivals, is_live_fetching,
                  stop_event, live_chat_id >>
  /\ ThreadFrame

\* datasource.py lines 286-289: the loop is left.
T_Cleanup(t) ==
  /\ threads[t].pc = "cleanup"
  /\ is_live_fetching' = FALSE
  /\ live_chat_id' = "None"
  /\ SetThread(t, IdleThread)
  /\ UNCHANGED << participants, total_messages_fetched, last_fetch_time,
                  fetch_errors, arrivals, stop_event >>
  /\ ThreadFrame

\* ui.py line 355: the lines of the blacklist box, stripped, empty ones
\* dropped.
BlacklistLines(lines) ==
  LET F[i \in 0..Len(lines)] ==
        IF i = 0 THEN << >>
        ELSE IF Strip(lines[i]) # <<>> THEN Append(F[i - 1], Strip(lines[i]))
             ELSE F[i - 1]
  IN F[Len(lines)]

\* GiveawayApp._apply_filters, ui.py lines 344-359: get_participants() copies
\* the mapping, the filter is set from the entry fields, then apply_filters
\* reads message_count and messages of every participant in the copy
\* (filters.py lines 81 and 89).
_apply_filters(keyword_var, min_messages_var, blacklist_text) ==
  /\ observed' = [k \in DOMAIN participants |->
                    [message_count |-> participants[k].message_count,
                     n_messages |-> Len(participants[k].messages)]]
  /\ keyword' = Strip(keyword_var)
  /\ case_sensitive' = FALSE
  /\ min_messages' = Max(0, min_messages_var)
  /\ blacklist' = NormalizedBlacklist(BlacklistLines(blacklist_text))
  /\ filter_call' =
       [op |-> "apply_filters", on |-> participants,
        result |-> apply_filters(
                     [keyword |-> Strip(keyword_var),
                      min_messages |-> Max(0, min_messages_var),
                      blacklist |-> NormalizedBlacklist(BlacklistLines(blacklist_text)),
                      case_sensitive |-> FALSE],
                     participants)]
  /\ app_participants' = get_participants
  /\ app_eligible_usernames' =
       apply_filters(
         [keyword |-> Strip(keyword_var),
          min_messages |-> Max(0, min_messages_var),
          blacklist |-> NormalizedBlacklist(BlacklistLines(blacklist_text)),
          case_sensitive |-> FALSE],
         participants)
  /\ last_op' = "apply_filters"
  /\ returned' = TRUE
  /\ reported' = << >>
  /\ UNCHANGED << participants, total_messages_fetched, last_fetch_time,
                  fetch_errors, new_participants, arrivals >>
  /\ UNCHANGED << selvars, rngvars, test_participants, is_live_fetching, stop_event,
                  live_chat_id, threads >>

LiveInit ==
  /\ is_live_fetching = FALSE
  /\ stop_event = FALSE
  /\ live_chat_id = "None"
  /\ threads = [t \in ThreadIds |-> IdleThread]
  /\ observed = EmptyDict

\* ------------------------------------------ Participant objects built by hand

\* test_components.py lines 50-55 and 110-114: a mapping filled with
\* Participant(username, message_count=c[, messages=ms]).
TestConstruct ==
  /\ Cardinality(DOMAIN test_participants) < 2
  /\ \E u \in Usernames, c \in 0..MaxStoreMsgs,
        ms \in { <<>> } \cup SeqsUpTo(MessageTexts, 1) :
       /\ Lower(u) \notin DOMAIN test_participants
       /\ test_participants' =
            DictSet(test_participants, Lower(u), ParticipantInit(u, c, ms))
  /\ UNCHANGED << selvars, rngvars, filtervars, storevars, livevars, appvars >>

\* Participant.add_message on one of them.
TestAddMessage ==
  /\ \E k \in DOMAIN test_participants, m \in MessageTexts :
       /\ Len(test_participants[k].messages) < MaxStoreMsgs
       /\ test_participants' =
            DictSet(test_participants, k, add_message(test_participants[k], m))
  /\ UNCHANGED << selvars, rngvars, filtervars, storevars, livevars, appvars >>

\* --------------------------------------------------------- specifications

\* GiveawayApp.__init__, ui.py lines 46-47
AppInit ==
  /\ app_participants = [same |-> FALSE, stored |-> {}, kept |-> EmptyDict]
  /\ app_eligible_usernames = {}

Init ==
  /\ SelInit
  /\ StoreInit
  /\ test_participants = EmptyDict
  /\ LiveInit
  /\ FilterInit
  /\ RngInit
  /\ AppInit

SelNext ==
  \/ pick_winners
  \/ WeightedDraw
  \/ WeightedRaise
  \/ WeightedReturn
  \/ CallEnds

\* The selector alone.
SpecSel == Init /\ [][SelNext]_vars

\* The constructions and seedings followed: two, for the two calls that are
\* compared.
Runs == {1, 2}

\* Most calls of a selector since it was constructed or seeded.
MaxCalls == 2

\* The arguments of the calls of a seeded selector.
SeedInputs ==
  LET two == << <<"b","o","b">>, <<" ","a","l">> >>
  IN { [eligible |-> two, n |-> 1, weighted |-> FALSE, counts |-> <<>>],
       [eligible |-> two, n |-> 2, weighted |-> TRUE,
        counts |-> (two[1] :> 1) @@ (two[2] :> 1)],
       [eligible |-> two, n |-> 1, weighted |-> TRUE,
        counts |-> (two[1] :> 0) @@ (two[2] :> 0)] }

OptionalSeeds == { <<>> } \cup { << s >> : s \in Seeds }

\* What one selector does.
SelectorNext(sel) ==
  \/ \E s \in Seeds : seedings + 1 \in Runs /\ set_seed(sel, s)
  \/ \E seed \in OptionalSeeds : seedings + 1 \in Runs /\ Construct(sel, seed)
  \/ \E in \in SeedInputs :
       /\ Len(own[sel]) < MaxCalls
       /\ Call(sel, in)
  \/ WeightedDraw
  \/ WeightedRaise
  \/ WeightedReturn
  \/ CallEnds

SeedNext == SelectorNext(1)

\* One selector, the only user of the generator.
SpecSeed == Init /\ [][SeedNext]_vars

\* The calls made where two selectors share the generator: uniform ones,
\* each the first of its selector on the seeded generator.
SharedInputs == { in \in SeedInputs : ~in.weighted }

SharedNext ==
  \/ \E s \in Seeds : seedings + 1 \in Runs /\ set_seed(1, s)
  \/ \E seed \in OptionalSeeds : seedings + 1 \in Runs /\ Construct(2, seed)
  \/ \E sel \in SelectorIds, in \in SharedInputs :
       /\ own[sel] = <<>>
       /\ Call(sel, in)
  \/ CallEnds
  \/ \E msgs \in DemoMessageLists(DemoCount) :
       /\ sel_pc = "idle"
       /\ participants = EmptyDict
       /\ import_from_url(msgs)

\* Two selectors and the URL import, all on the generator of the module.
SpecShared == Init /\ [][SharedNext]_vars

Min(a, b) == IF a <= b THEN a ELSE b

ImportNext ==
  \/ \E file \in ImportFiles :
       /\ Len(file.rows) <= Room
       /\ ImportFile(file)
  \/ \E url \in ImportUrls :
       /\ ~(validate_url(url) /\ url.answers_again)
       /\ ImportUrl(url, << >>)
  \/ /\ Room >= DemoCount
     /\ \E url \in ImportUrls, msgs \in DemoMessageLists(DemoCount) :
          /\ validate_url(url) /\ url.answers_again
          /\ SumSeq([i \in 1..DemoCount |-> Len(msgs[i])]) <= Room
          /\ ImportUrl(url, msgs)
  \/ \E messages \in [1..Min(1, Room) -> ChatMessages] :
       messages # << >> /\ LiveBatch(messages)
  \/ clear_participants

\* Imports that fail and imports that succeed, on a store the live feed fills.
SpecImport == Init /\ [][ImportNext]_vars

StoreNext ==
  \/ \E n \in 0..Min(MaxRows, Room) : \E rows \in [1..n -> CsvRows] :
       import_from_file(rows)
  \/ /\ Room >= DemoCount
     /\ \E msgs \in DemoMessageLists(DemoCount) :
          /\ SumSeq([i \in 1..DemoCount |-> Len(msgs[i])]) <= Room
          /\ import_from_url(msgs)
  \/ \E n \in 1..Min(MaxBatch, Room) : \E messages \in [1..n -> ChatMessages] :
       LiveBatch(messages)
  \/ clear_participants

\* The participant store, one operation at a time.
SpecStore == Init /\ [][StoreNext]_vars

ModelsNext ==
  \/ TestConstruct
  \/ TestAddMessage

\* Participant objects on their own.
SpecModels == Init /\ [][ModelsNext]_vars

ThreadStep(t) ==
  \/ T_Test(t)
  \/ \E messages \in [1..Min(1, ConcRoom) -> ConcChatMessages] :
       messages # <<>> /\ T_FetchMessages(t, messages)
  \/ T_FetchNothing(t)
  \/ T_FetchError(t)
  \/ T_Check(t)
  \/ T_Create(t)
  \/ T_Append(t)
  \/ T_KeyError(t)
  \/ T_Load(t)
  \/ T_Store(t)
  \/ T_Account(t)
  \/ T_Cleanup(t)

\* The live-fetch thread that interleaves with the main thread.
ConcThreads == {1}

ConcNext ==
  \/ start_live_fetch(ConcThreads)
  \/ start_live_fetch_refused
  \/ stop_live_fetch
  \/ \E t \in ConcThreads : ThreadStep(t)
  \/ \E n \in 0..Min(1, ConcRoom) : \E rows \in [1..n -> ConcCsvRows] :
       import_from_file(rows)
  \/ _clear_all
  \/ _apply_filters(<<>>, 1, <<>>)

\* The main thread's operations interleaved with the live-fetch threads.
SpecConc == Init /\ [][ConcNext]_vars

\* GiveawayApp._pick_winners, ui.py lines 370-394, when it gets to the
\* selector: lines 372-381 return when no username is eligible or more
\* winners are asked for than there are, and a key missing from the mapping
\* at line 385 ends the handler in its except clause. The list of eligible
\* usernames is in the order of the dict, any order here; the counts are read
\* from the Participant objects of the mapping.
_pick_winners(num_winners_var, weighted_selection_var) ==
  /\ app_eligible_usernames # {}
  /\ num_winners_var <= Cardinality(app_eligible_usernames)
  /\ \A username \in app_eligible_usernames :
       Lower(username) \in MappingKeys(app_participants)
  /\ \E eligible \in DistinctSeqs(app_eligible_usernames,
                                   Cardinality(app_eligible_usernames)) :
       /\ Len(eligible) = Cardinality(app_eligible_usernames)
       /\ Call(1, [eligible |-> eligible,
                   n |-> num_winners_var,
                   weighted |-> weighted_selection_var,
                   counts |-> [username \in app_eligible_usernames |->
                                 MappingGet(app_participants,
                                            Lower(username)).message_count]])

\* Most messages in the store while the application is exercised.
MaxAppMsgs == 2

AppRoom == MaxAppMsgs - TotalMessages(participants)

\* Messages of the live chat the application is fed.
AppChatMessages ==
  { [username |-> <<"B","o","b">>, message |-> <<"w","i","n">>],
    [username |-> <<"a","l">>, message |-> <<"H","i">>] }

\* A Participant the holder of a mapping puts into it, built by hand.
AppParticipants == { ParticipantInit(<<"A","l">>, 0, << >>) }

\* The handlers of the application run one at a time on its main thread.
AppNext ==
  \/ \E m \in AppChatMessages :
       sel_pc = "idle" /\ AppRoom >= 1 /\ LiveBatch(<< m >>)
  \/ sel_pc = "idle" /\ clear_participants
  \/ sel_pc = "idle" /\ _clear_all
  \/ \E kw \in { <<>>, <<"w","i","n">> }, min \in 0..1 :
       sel_pc = "idle" /\ _apply_filters(kw, min, <<>>)
  \/ \E n \in 1..2, w \in BOOLEAN : _pick_winners(n, w)
  \/ \E k \in MappingKeys(app_participants) : sel_pc = "idle" /\ MappingDel(k)
  \/ \E p \in AppParticipants :
       sel_pc = "idle" /\ MappingSet(Lower(p.username), p)
  \/ WeightedDraw
  \/ WeightedRaise
  \/ WeightedReturn
  \/ CallEnds

\* The application: the store, the mapping it takes from it, the filter and
\* the selector.
SpecApp == Init /\ [][AppNext]_vars

\* Most messages in the store while the filter is exercised.
MaxFilterMsgs == 2

\* Messages and rows that feed the store the filter is applied to.
FilterChatMessages ==
  { [username |-> <<"B","o","b">>, message |-> <<"w","i","n">>],
    [username |-> <<" ","a","l">>, message |-> <<"H","i">>] }

FilterCsvRows == { << <<" ","A","l">>, <<"w","i","n">> >> }

FilterRoom == MaxFilterMsgs - TotalMessages(participants)

\* test_components.py lines 110-114: a mapping whose participant is given a
\* count and no message.
TestFixture ==
  /\ test_participants = EmptyDict
  /\ test_participants' =
       [k \in { <<"b","o","b">> } |-> ParticipantInit(<<"B","o","b">>, 2, <<>>)]
  /\ UNCHANGED << selvars, rngvars, filtervars, storevars, livevars, appvars >>

FilterNext ==
  \/ \E kw \in KeywordInputs, cs \in BOOLEAN : set_keyword_filter(kw, cs)
  \/ \E min_count \in (-1)..MaxMinMessages : set_minimum_messages(min_count)
  \/ \E blacklisted_usernames \in BlacklistInputs :
       set_blacklist(blacklisted_usernames)
  \/ CallApplyFilters
  \/ CallGetIneligibleReasons
  \/ CallIsParticipantEligible
  \/ \E m \in FilterChatMessages : FilterRoom >= 1 /\ LiveBatch(<< m >>)
  \/ \E row \in FilterCsvRows : FilterRoom >= 1 /\ import_from_file(<< row >>)
  \/ TestFixture

\* The filter, its settings and the mappings it is applied to.
SpecFilter == Init /\ [][FilterNext]_vars

\* ------------------------------------------------------------ claims C1-C4

\* The set of elements of a sequence.
Range(s) == { s[i] : i \in 1..Len(s) }

NoRepeats(s) == \A i, j \in 1..Len(s) : i # j => s[i] # s[j]

WinnerNames == [i \in 1..Len(winners) |-> winners[i].username]

\* A call whose size request is valid: 1 <= num_winners <= len(eligible).
ValidRequest == 1 <= num_winners /\ num_winners <= Len(eligible_usernames)

CallOver == sel_pc \in {"returned", "raised"}

\* C1: every call with 1 <= num_winners <= len(eligible_usernames), uniform
\* or weighted, with any non-negative message_counts, returns exactly
\* num_winners winners, all of them eligible, none twice; when num_winners
\* equals len(eligible_usernames) the winners are exactly the eligible keys.
C1_SelectionWithoutReplacement ==
  (CallOver /\ ValidRequest) =>
    /\ sel_pc = "returned"
    /\ Len(winners) = num_winners
    /\ Range(WinnerNames) \subseteq Range(eligible_usernames)
    /\ NoRepeats(WinnerNames)
    /\ (num_winners = Len(eligible_usernames) =>
          Range(WinnerNames) = Range(eligible_usernames))

\* C2: in every list pick_winners returns, the i-th winner has
\* draw_order = i, so the draw orders are exactly 1..N.
C2_DrawOrderIsPosition ==
  sel_pc = "returned" =>
    /\ \A i \in 1..Len(winners) : winners[i].draw_order = i
    /\ { winners[i].draw_order : i \in 1..Len(winners) } = 1..Len(winners)

\* A weighted call has returned three winners.
C2_Witness ==
  /\ sel_pc = "returned"
  /\ Len(winners) = 3
  /\ UseWeighted(weighted_by_messages, message_counts)
  /\ winners[3].draw_order = 3

\* C3: whenever num_winners > len(eligible_usernames), in uniform and in
\* weighted mode, the call raises and produces no winners.
C3_OversizeRaises ==
  (sel_pc # "idle" /\ num_winners > Len(eligible_usernames)) =>
    /\ sel_pc = "raised"
    /\ winners = <<>>
    /\ selected = <<>>

\* A weighted call asking for one more winner than there are eligible keys
\* has raised.
C3_Witness ==
  /\ sel_pc = "raised"
  /\ Len(eligible_usernames) = 2
  /\ num_winners = 3
  /\ UseWeighted(weighted_by_messages, message_counts)

\* C4: whenever num_winners <= 0 the call returns the empty list and does
\* not raise, for every eligible list, the empty one included.
C4_NonPositiveReturnsEmpty ==
  (sel_pc # "idle" /\ num_winners <= 0) =>
    /\ sel_pc = "returned"
    /\ winners = <<>>

\* A call with num_winners = 0 on the empty eligible list has returned.
C4_Witness ==
  /\ sel_pc = "returned"
  /\ num_winners = 0
  /\ eligible_usernames = <<>>
  /\ winners = <<>>

\* ------------------------------------------------------------ claims C5-C9

\* C5: every participant's message_count equals the length of its messages
\* list, whether the participant was built by the ingestion code or
\* constructed directly.
C5_CountEqualsLength ==
  \A d \in {participants, test_participants} :
    \A k \in DOMAIN d : d[k].message_count = Len(d[k].messages)

Bob == <<"B","o","b">>
bob == <<"b","o","b">>
BOB == <<"B","O","B">>

\* C6: messages from names that differ only by letter case land in one
\* participant, stored under the lowercased name; its count is the number of
\* those messages and its displayed username is the name that arrived first,
\* which later arrivals never overwrite.
C6_FirstCasingWins ==
  /\ DOMAIN participants = DOMAIN arrivals
  /\ \A k \in DOMAIN arrivals :
       /\ participants[k].username = arrivals[k].first
       /\ participants[k].message_count = arrivals[k].n
       /\ Len(participants[k].messages) = arrivals[k].n
       /\ \A i \in 1..Len(arrivals[k].names) : Lower(arrivals[k].names[i]) = k

\* Messages from "Bob", then "bob", then "BOB" came from the live chat, and
\* nothing else.
C6_Witness ==
  /\ last_op = "live"
  /\ DOMAIN arrivals = {bob}
  /\ arrivals[bob].names = <<Bob, bob, BOB>>
  /\ arrivals[bob].n = 3
  /\ DOMAIN participants = {bob}
  /\ participants[bob].username = Bob
  /\ participants[bob].message_count = 3

\* A step that is a merge of an incoming batch (import_from_file with a
\* non-empty batch, or import_from_url).
MergeStep ==
  /\ last_op' \in {"import_from_file", "import_from_url"}
  /\ new_participants' # EmptyDict

\* C7: after merging batch B into store S the sum of message_count is the
\* sum before plus the number of messages in B.
C7_MessageConservation ==
  [][MergeStep =>
       SumCounts(participants') =
         SumCounts(participants) + TotalMessages(new_participants')]_vars

\* A file import has merged a batch that extended one existing participant
\* and added a new one.
C7_Witness ==
  /\ last_op = "import_from_file"
  /\ \E k1, k2 \in DOMAIN new_participants :
       /\ Len(participants[k1].messages) > Len(new_participants[k1].messages)
       /\ participants[k2] = new_participants[k2]
       /\ k1 # k2
  /\ SumCounts(participants) = 3

\* C8: a merge keeps one participant per key: an existing participant is
\* kept (its username stays) and its messages become the old ones followed
\* by the incoming ones in order; a new key gets the incoming participant as
\* it is; no key is removed and no other participant changes.
C8_MergeAppends ==
  [][MergeStep =>
       /\ DOMAIN participants' = DOMAIN participants \cup DOMAIN new_participants'
       /\ \A k \in DOMAIN participants \ DOMAIN new_participants' :
            participants'[k] = participants[k]
       /\ \A k \in DOMAIN new_participants' :
            IF k \in DOMAIN participants
            THEN /\ participants'[k].username = participants[k].username
                 /\ participants'[k].messages =
                      participants[k].messages \o new_participants'[k].messages
                 /\ participants'[k].message_count =
                      participants[k].message_count
                        + Len(new_participants'[k].messages)
            ELSE participants'[k] = new_participants'[k]]_vars

\* A file import has merged a participant whose name is cased differently
\* from the stored one, which had a message of another text.
C8_Witness ==
  /\ last_op = "import_from_file"
  /\ \E k \in DOMAIN new_participants :
       /\ participants[k].username # new_participants[k].username
       /\ Len(participants[k].messages) = 2
       /\ participants[k].messages[1] # participants[k].messages[2]
       /\ participants[k].messages[2] = new_participants[k].messages[1]

\* C9: merging an empty incoming set leaves the store unchanged: the same
\* participants and the same counters.
C9_EmptyMergeIsNoOp ==
  [][(last_op' = "import_from_file" /\ new_participants' = EmptyDict) =>
       /\ participants' = participants
       /\ total_messages_fetched' = total_messages_fetched
       /\ last_fetch_time' = last_fetch_time
       /\ fetch_errors' = fetch_errors]_vars

\* An import whose file holds no valid row has returned False on a store
\* that holds participants and has counted live messages.
C9_Witness ==
  /\ last_op = "import_from_file"
  /\ new_participants = EmptyDict
  /\ ~returned
  /\ participants # EmptyDict
  /\ total_messages_fetched > 0

\* ----------------------------------------------------------------- claim C10

\* C10: no reader ever observes a participant whose message_count differs
\* from the length of its messages list.
C10_NoTornRead ==
  \A k \in DOMAIN observed : observed[k].message_count = observed[k].n_messages

\* ----------------------------------------------------------------- claim C11

\* A live-fetch thread is inside process_chat_messages (youtube_api.py lines
\* 212-228), between the membership test of a message and the end of its
\* add_message.
InsideMutation(t) ==
  threads[t].pc \in {"check", "create", "append", "load", "store"}

\* A step of the main thread that changes the participant store (a merge or
\* a clear): no thread moves and the store differs.
MainMutates ==
  /\ \A t \in ThreadIds : threads'[t].pc = threads[t].pc
  /\ participants' # participants

\* A thread stores a new Participant under a key (youtube_api.py line 221).
CreatesAt(t, k) ==
  /\ threads[t].pc = "create"
  /\ threads'[t].pc = "append"
  /\ CurrentKey(t) = k

\* Every message put into the store since the last clear is still in it.
NoMessageLost ==
  \A k \in DOMAIN arrivals :
    /\ k \in DOMAIN participants
    /\ Len(participants[k].messages) = arrivals[k].n

\* C11: mutations of the store are serialized: a main-thread merge or clear
\* never runs while the live-fetch thread is inside its message processing,
\* so no message put into the store is lost and no Participant is created
\* for a key that already has one.
C11_MutationsSerialized ==
  [][/\ MainMutates => \A t \in ThreadIds : ~InsideMutation(t)
     /\ NoMessageLost'
     /\ \A t \in ThreadIds : \A k \in DOMAIN participants : ~CreatesAt(t, k)]_vars

\* ------------------------------------------------------------ claims C12-C15

\* The three checks of the filter, stated on its current settings (every
\* setter overwrites filter_call, so a recorded call was made with them).
PassesBlacklist(participant) == Lower(participant.username) \notin blacklist

PassesMinimum(participant) == participant.message_count >= min_messages

\* A message of the participant contains the keyword, compared exactly when
\* case_sensitive is set and with both sides lowercased otherwise.
KeywordFound(participant) ==
  \E i \in 1..Len(participant.messages) :
    IF case_sensitive
    THEN Contains(keyword, participant.messages[i])
    ELSE Contains(Lower(keyword), Lower(participant.messages[i]))

PassesKeyword(participant) == keyword = <<>> \/ KeywordFound(participant)

\* C12: apply_filters returns exactly the keys of the participants that are
\* not blacklisted, have message_count >= min_messages and, when the keyword
\* is not empty, have a message containing it.
C12_FiltersConjunctive ==
  filter_call.op = "apply_filters" =>
    /\ filter_call.result \subseteq DOMAIN filter_call.on
    /\ \A k \in DOMAIN filter_call.on :
         k \in filter_call.result <=>
           /\ PassesBlacklist(filter_call.on[k])
           /\ PassesMinimum(filter_call.on[k])
           /\ PassesKeyword(filter_call.on[k])

\* apply_filters ran with a keyword and a blacklist set, kept one participant
\* and dropped another that fails the keyword check alone.
C12_Witness ==
  /\ filter_call.op = "apply_filters"
  /\ keyword # <<>>
  /\ blacklist # {}
  /\ filter_call.result # {}
  /\ \E k \in DOMAIN filter_call.on \ filter_call.result :
       /\ PassesBlacklist(filter_call.on[k])
       /\ PassesMinimum(filter_call.on[k])
       /\ ~PassesKeyword(filter_call.on[k])

\* The reasons of the failing checks, in the order blacklist, minimum
\* messages, keyword.
FailingChecks(participant) ==
  (IF PassesBlacklist(participant) THEN << >> ELSE << "blacklist" >>)
  \o (IF PassesMinimum(participant) THEN << >> ELSE << "min_messages" >>)
  \o (IF PassesKeyword(participant) THEN << >> ELSE << "keyword" >>)

\* The participant a single-participant call was made on.
CalledOn == filter_call.on[CHOOSE k \in DOMAIN filter_call.on : TRUE]

\* C13: get_ineligible_reasons returns one reason for every failing check,
\* in the order blacklist, minimum messages, keyword; and apply_filters
\* never returns a blacklisted participant.
C13_AllReasonsInOrder ==
  /\ filter_call.op = "get_ineligible_reasons" =>
       filter_call.result = FailingChecks(CalledOn)
  /\ filter_call.op = "apply_filters" =>
       \A k \in filter_call.result : PassesBlacklist(filter_call.on[k])

\* get_ineligible_reasons ran on a blacklisted participant that passes the
\* minimum (set above 0) and the keyword check (keyword set), and returned the
\* blacklist reason alone.
C13_Witness ==
  /\ filter_call.op = "get_ineligible_reasons"
  /\ keyword # <<>>
  /\ min_messages > 0
  /\ ~PassesBlacklist(CalledOn)
  /\ PassesMinimum(CalledOn)
  /\ KeywordFound(CalledOn)
  /\ filter_call.result = << "blacklist" >>

\* The key a single-participant call was made on.
CalledKey == CHOOSE k \in DOMAIN filter_call.on : TRUE

C15_KeywordCheck ==
  /\ filter_call.op = "get_ineligible_reasons" =>
       ("keyword" \notin Range(filter_call.result) <=>
          (keyword = <<>> \/ KeywordFound(CalledOn)))
  /\ filter_call.op = "is_participant_eligible" =>
       ((PassesBlacklist(CalledOn) /\ PassesMinimum(CalledOn)) =>
          (filter_call.result <=> (keyword = <<>> \/ KeywordFound(CalledOn))))
  /\ filter_call.op = "apply_filters" =>
       \A k \in DOMAIN filter_call.on :
         (PassesBlacklist(filter_call.on[k]) /\ PassesMinimum(filter_call.on[k])) =>
           (k \in filter_call.result <=>
              (keyword = <<>> \/ KeywordFound(filter_call.on[k])))

\* With the keyword "WIN" and case_sensitive off, a participant whose only
\* message is "win" was found eligible.
C15_Witness ==
  /\ filter_call.op = "is_participant_eligible"
  /\ keyword = <<"W","I","N">>
  /\ ~case_sensitive
  /\ CalledOn.messages = << <<"w","i","n">> >>
  /\ filter_call.result = TRUE

\* ------------------------------------------------------------ claims C16-C17

\* C16: a message whose username is empty or only whitespace is dropped on
\* ingestion, from the live feed as from a file: no participant of the store
\* has such a username.
C16_BlankUsernameDropped ==
  \A k \in DOMAIN participants : Strip(participants[k].username) # <<>>

\* C17: the key a participant is stored under is its username trimmed and
\* lowercased, on the live feed as on file import.
C17_KeyIsTrimmedLowercase ==
  \A k \in DOMAIN participants :
    Strip(participants[k].username) # <<>> =>
      k = Lower(Strip(participants[k].username))

\* ----------------------------------------------------------------- claim C18

\* C18: in weighted mode a candidate whose message count is 0 can still be
\* drawn (every candidate left in the pool is a possible outcome of the next
\* draw), and the call does not fail for its weights: a weighted call raises
\* only for asking more winners than there are eligible usernames.
C18_ZeroCountCanBeDrawn ==
  /\ (sel_pc = "weighted" /\ LoopContinues) =>
       \A i \in 1..Len(remaining_usernames) :
         i \in ChoicesPositions(remaining_weights)
  /\ (sel_pc = "raised" /\ UseWeighted(weighted_by_messages, message_counts)) =>
       num_winners > Len(eligible_usernames)

\* ------------------------------------------------------------ claims C19-C20

\* Two completed calls of seeded selectors that agree on the seed, on the
\* selector's calls since it was seeded and on the inputs.
SameSeedAndInputs(p, q) ==
  /\ p.seed = q.seed
  /\ p.prior = q.prior
  /\ p.in = q.in

\* C19: two pick_winners calls made with the same seed (by selectors that
\* made the same calls since they were seeded) and the same inputs return the
\* same usernames in the same order.
C19_SeededPicksRepeat ==
  \A p, q \in picks : SameSeedAndInputs(p, q) => p.result = q.result

\* C20: the result of a seeded selector's pick_winners is not changed by what
\* other components did between its seeding and the call: it is the result
\* of the call with the same seed, calls before and inputs that nothing came
\* before.
C20_SelectorOwnsGenerator ==
  \A p, q \in picks :
    (p.others /\ ~q.others /\ SameSeedAndInputs(p, q)) => p.result = q.result

\* ----------------------------------------------------------------- claim C25

\* The pool of a weighted selection in progress: usernames and weights have
\* the same length, and the weight at a position is the message count of the
\* username at that position, 1 when the username has no count.
PoolAligned ==
  sel_pc = "weighted" =>
    /\ Len(remaining_usernames) = Len(remaining_weights)
    /\ \A i \in 1..Len(remaining_usernames) :
         remaining_weights[i] =
           DictGet(message_counts, remaining_usernames[i], 1)

\* A step of _weighted_selection that draws a candidate.
DrawStep == sel_pc = "weighted" /\ Len(selected') = Len(selected) + 1

\* The candidate at this position of the pool is drawn and leaves the pool
\* with its weight.
DrawnFrom(pos) ==
  /\ selected' = Append(selected, remaining_usernames[pos])
  /\ remaining_usernames' = Pop(remaining_usernames, pos)
  /\ remaining_weights' = Pop(remaining_weights, pos)

\* C25: weighted selection draws from a shrinking pool: every draw takes a
\* candidate still in the pool whose weight is positive and removes the
\* candidate together with its own weight, so that usernames and weights
\* keep the same length and each weight is the message count (1 when
\* missing) of the username at its position.
C25_ShrinkingPool ==
  /\ []PoolAligned
  /\ [][DrawStep =>
         \E pos \in 1..Len(remaining_usernames) :
           remaining_weights[pos] > 0 /\ DrawnFrom(pos)]_vars

\* ----------------------------------------------------------------- claim C29

\* C29: for every participant and every filter configuration,
\* is_participant_eligible returns true exactly when get_ineligible_reasons
\* returns an empty list: on every participant of the mappings at hand under
\* the current configuration, and for the call that was made last against
\* the other evaluation of its argument.
C29_EvaluationsAgree ==
  /\ \A parts \in FilterArguments : \A k \in DOMAIN parts :
       is_participant_eligible(Filter, parts[k])
         <=> get_ineligible_reasons(Filter, parts[k]) = << >>
  /\ filter_call.op = "is_participant_eligible" =>
       (filter_call.result
          <=> get_ineligible_reasons(Filter, CalledOn) = << >>)
  /\ filter_call.op = "get_ineligible_reasons" =>
       (filter_call.result = << >>
          <=> is_participant_eligible(Filter, CalledOn))

\* is_participant_eligible has returned False for a participant who is not
\* blacklisted, for whom get_ineligible_reasons gives the minimum and the
\* keyword, under a keyword with capital letters.
C29_Witness ==
  /\ filter_call.op = "is_participant_eligible"
  /\ ~filter_call.result
  /\ get_ineligible_reasons(Filter, CalledOn) = << "min_messages", "keyword" >>
  /\ keyword # Lower(keyword)

\* ----------------------------------------------------------------- claim C24

\* A step that is a call of apply_filters, is_participant_eligible or
\* get_ineligible_reasons on the filter.
FilterQueryStep ==
  /\ filter_call'.op \in
       {"apply_filters", "is_participant_eligible", "get_ineligible_reasons"}
  /\ \/ filter_call.op # filter_call'.op
     \/ filter_call.on # filter_call'.on
     \/ filter_call.result # filter_call'.result

\* C24: apply_filters, is_participant_eligible and get_ineligible_reasons
\* leave the participant mapping and every participant in it (username,
\* messages, message_count) unchanged, and leave the configuration of the
\* filter unchanged.
C24_FilterQueriesArePure ==
  [][FilterQueryStep =>
       /\ participants' = participants
       /\ test_participants' = test_participants
       /\ Filter' = Filter]_vars

\* apply_filters has run on a store that holds a message with a capital
\* letter, under a keyword with capital letters and a blacklist.
C24_Witness ==
  /\ filter_call.op = "apply_filters"
  /\ filter_call.on = participants
  /\ \E k \in DOMAIN participants : \E i \in 1..Len(participants[k].messages) :
       participants[k].messages[i] # Lower(participants[k].messages[i])
  /\ keyword # Lower(keyword)
  /\ blacklist # {}

\* ----------------------------------------------------------------- claim C30

\* A step that is an import which obtained no participant: the file is
\* missing, of an unsupported format, unreadable or without a valid row, the
\* URL is empty, not a YouTube URL or unreachable.
FailedImportStep ==
  /\ last_op' \in {"import_from_file", "import_from_url"}
  /\ new_participants' = EmptyDict

\* C30: an import that fails returns False, hands the error to the error
\* callback, and leaves the participant store and its counters as they were
\* before the call.
C30_FailedImportLeavesStore ==
  [][FailedImportStep =>
       /\ returned' = FALSE
       /\ reported' # << >>
       /\ participants' = participants
       /\ total_messages_fetched' = total_messages_fetched
       /\ last_fetch_time' = last_fetch_time
       /\ fetch_errors' = fetch_errors]_vars

\* An import whose parse_file raised has returned False on a store that
\* holds participants and has counted live messages.
C30_Witness ==
  /\ last_op = "import_from_file"
  /\ ~returned
  /\ reported = << "Error importing file" >>
  /\ participants # EmptyDict
  /\ total_messages_fetched > 0
  /\ last_fetch_time = "set"

\* ----------------------------------------------------------- claim C21

\* C21: each Winner picked from the filtered participants carries the
\* display username of the participant selected (the casing first seen), not
\* the lowercased key it is stored under.
C21_WinnerCarriesDisplayName ==
  sel_pc = "returned" =>
    \A i \in 1..Len(winners) :
      winners[i].username =
        MappingGet(app_participants, Lower(selected[i])).username

\* ----------------------------------------------------------- claim C23

\* A step in which the holder of a mapping changes its keys.
MappingMutationStep == last_op' \in {"del", "set"}

\* A step of the store: an addition, a merge or a clear.
StoreMutationStep ==
  /\ last_op' \in {"live", "import_from_file", "import_from_url", "clear"}
  /\ participants' # participants

\* C23: the key set of the mapping get_participants returned is independent
\* of the store: changing the keys of the mapping leaves the keys of the
\* store, and an addition, merge or clear on the store leaves the keys of a
\* mapping returned earlier.
C23_SnapshotKeysIndependent ==
  /\ [][MappingMutationStep => DOMAIN participants' = DOMAIN participants]_vars
  /\ [][StoreMutationStep =>
         MappingKeys(app_participants)' = MappingKeys(app_participants)]_vars

\* The store was cleared and filled again after the mapping was returned,
\* and the holder has set a key of its own: each has a key the other lacks.
C23_Witness ==
  /\ last_op = "set"
  /\ app_participants.stored = {}
  /\ <<"b","o","b">> \in DOMAIN app_participants.kept
  /\ <<"a","l">> \in DOMAIN app_participants.kept
  /\ DOMAIN participants = { <<"b","o","b">> }
  /\ total_messages_fetched = 1

\* ------------------------------------------------- claims C22, C26-C28

LiveNext ==
  \/ start_live_fetch(ThreadIds)
  \/ stop_live_fetch
  \/ \E t \in ThreadIds : ThreadStep(t)
  \/ clear_participants

\* Starts, stops and clears of the main thread while the loops run.
SpecLive == Init /\ [][LiveNext]_vars

\* The _live_fetch_loop threads that have started and not returned.
Running == { t \in ThreadIds : threads[t].pc # "none" }

\* A step of clear_participants: no thread moves in it.
ClearStep ==
  /\ last_op' = "clear"
  /\ \A t \in ThreadIds : threads'[t].pc = threads[t].pc

\* C22: after clear_participants, whatever preceded it, the store holds no
\* participant and its counters are reset: total_messages_fetched and
\* fetch_errors are 0 and last_fetch_time is None.
C22_ClearResets ==
  [][ClearStep =>
       /\ participants' = EmptyDict
       /\ total_messages_fetched' = 0
       /\ fetch_errors' = 0
       /\ last_fetch_time' = "None"]_vars

\* The store has just been cleared under a loop that had counted an error
\* and, in its next fetch, put a message into the store.
C22_Witness ==
  /\ last_op = "clear"
  /\ participants = EmptyDict
  /\ fetch_errors = 0
  /\ \E t \in ThreadIds :
       /\ threads[t].consecutive_errors > 0
       /\ threads[t].pc = "account"
       /\ threads[t].new_messages > 0

\* C26: at most one live-fetch loop runs at any time, whatever the starts
\* and stops, and is_live_fetching is true while a loop is active.
C26_SingleLoop ==
  /\ Cardinality(Running) <= 1
  /\ Running # {} => is_live_fetching

\* A step in which the loop of thread t counts a failure.
FailStep(t) ==
  threads'[t].consecutive_errors = threads[t].consecutive_errors + 1

\* A step in which the loop of thread t is left from inside (break).
BreakStep(t) ==
  /\ threads[t].pc \notin {"none", "test", "cleanup"}
  /\ threads'[t].pc = "cleanup"

\* A step in which an iteration of thread t ends without a failure.
SuccessStep(t) ==
  /\ threads[t].pc \in {"fetch", "account"}
  /\ threads'[t].pc = "test"
  /\ ~FailStep(t)

\* A step in which thread t returns from _live_fetch_loop.
ExitStep(t) == threads[t].pc # "none" /\ threads'[t].pc = "none"

FairThreads == {1}

LiveFairNext ==
  \/ start_live_fetch(FairThreads)
  \/ stop_live_fetch
  \/ \E t \in FairThreads : ThreadStep(t)
  \/ clear_participants

\* The loop thread is scheduled and each of its calls returns: a step of it
\* that stays possible is taken.
SpecLiveFair ==
  Init /\ [][LiveFairNext]_vars /\ WF_vars(\E t \in FairThreads : ThreadStep(t))

\* C28: after stop_live_fetch is called while a loop runs, and unless a
\* start follows, the loop eventually exits; from then on the live feed adds
\* no message to the store, and is_live_fetching stays false.
C28_StopEndsTheLoop ==
  /\ (stop_event /\ Running # {}) ~> (Running = {} \/ ~stop_event)
  /\ [](stop_event => ~is_live_fetching)
  /\ [][Running = {} =>
         /\ TotalMessages(participants') <= TotalMessages(participants)
         /\ total_messages_fetched' <= total_messages_fetched]_vars

\* stop_live_fetch has been called under a running loop that had put a
\* message into the store, and the loop has exited since.
C28_Witness ==
  /\ last_op = "stop_live_fetch"
  /\ stop_event
  /\ Running = {}
  /\ ~is_live_fetching
  /\ live_chat_id = "None"
  /\ total_messages_fetched > 0
  /\ participants # EmptyDict

====
